---- MODULE Spec2Model ----
(***************************************************************************)
(* Verification model of the Deno bridge.                                  *)
(*                                                                         *)
(*  - RPCClient (json_rpc_example/alice): Call, the read loop              *)
(*    handleIncoming, the per-request dispatch goroutines, the frames      *)
(*    written to the worker's stdin.                                       *)
(*  - DenoClient (internal/deno and internal/provider): Start and Stop of  *)
(*    the stdio binding and of the secure (certificate handshake) binding. *)
(***************************************************************************)
EXTENDS Integers, Sequences, FiniteSets, Bags, TLC

\* ------------------------------------------------------------------ bounds
\* number of goroutines that each issue one Call
NumCalls == 2
\* number of lines the worker writes to its stdout
MaxInbound == 2
\* number of inbound Requests (lines with method and id) among them
MaxRequests == 1
\* number of Start calls made on one DenoClient
MaxStarts == 2

Callers == 1..NumCalls
\* ids Call can allocate: nextID starts at 1 and is incremented once per Call
Ids == 1..NumCalls
\* ids the worker uses for its own Requests (its direction's id space)
WorkerReqIds == {5}
\* methods the worker asks for in its Requests: one that handleRequest
\* serves and one it does not
Methods == {"getConfig", "noSuchMethod"}
ReqSlots == 1..MaxRequests

\* ------------------------------------------------------------- RPC state
VARIABLES
  mu,           \* c.mu: "free" or "reader" (Call's critical sections are atomic)
  nextID,       \* c.nextID
  pending,      \* keys of c.pending
  chan,         \* chan[id]: buffer of the channel stored at c.pending[id] (cap 1)
  callPc,       \* position of each Call goroutine
  callId,       \* id allocated by each Call (0: none yet)
  callResp,     \* resp received from respChan by each Call
  callResult,   \* what each Call returned
  readerPc,     \* position of handleIncoming
  line,         \* the response handleIncoming is blocked sending (NoLine: none)
  nRead,        \* number of lines read so far
  reqG,         \* dispatch goroutines started for inbound Requests
  stdin,        \* the frames written to the worker's stdin (a bag of whole frames)
  notifyFunc,   \* c.notifyFunc # nil
  requestFunc,  \* c.requestFunc # nil
  orphans       \* ids of Responses dropped after their Call returned ctx.Err()

rpcVars == <<mu, nextID, pending, chan, callPc, callId, callResp,
             callResult, readerPc, line, nRead, reqG, stdin, notifyFunc,
             requestFunc, orphans>>

\* ------------------------------------------------------ DenoClient state
VARIABLES
  binding,      \* "stdio": internal/deno DenoClient; "secure": internal/provider DenoClient
  lcPc,         \* position of the Start or Stop call in progress ("idle": none)
  nStarts,      \* number of Start calls made on this DenoClient
  procs,        \* status of every worker process started by this DenoClient
  process,      \* c.process: 0 nil, -1 created but not started, k > 0: procs[k]
  socket,       \* c.Socket: "nil", "open" or "closed"
  lcCtxDone,    \* the context passed to Start is done
  healthAns,    \* how the current worker answers the health probe ("none": not yet)
  hsLine,       \* first line the current worker wrote to stdout ("none": not yet)
  hsLog,        \* what Start did on the worker's stdio and HTTP port, in order
  tlsRoots,     \* certificates in c.tlsConfig.RootCAs
  startResult,  \* what the last Start returned
  stopResult,   \* what the last Stop returned
  wStdin,       \* the JSON fields Start wrote to the current worker's stdin
  optDefined,   \* the optional methods the worker's script defines
  optOp,        \* the optional operation last called ("none": none yet)
  optAns,       \* the worker's answer to it
  optResult     \* what the operation returned to its caller

optVars == <<optDefined, optOp, optAns, optResult>>

lifeVars == <<binding, lcPc, nStarts, procs, process, socket, lcCtxDone,
              healthAns, hsLine, hsLog, tlsRoots, startResult, stopResult,
              wStdin, optVars>>

\* ---- the handshake worker (serveTLS of the reference worker, and the
\* ---- header variant's main)
VARIABLES
  wkKind,       \* which worker program runs: "serveTLS" or "header"
  wkPc,         \* the worker's position
  wkChunks,     \* the number of read chunks the initiator's message arrives in
  wkGot,        \* chunks the worker has taken off stdin
  wkInput,      \* chunks of the text handed to JSON.parse (0: not parsed yet)
  wkExpected,   \* header variant: expectedClientCertHash
  wkPort,       \* the port the worker was assigned (0: none yet)
  portOwner,    \* who holds that port: "free", "probe", "server", "other"
  wkStdout,     \* the lines the worker has written to stdout
  wkResponses   \* what the worker's HTTPS server has answered so far

wkVars == <<wkKind, wkPc, wkChunks, wkGot, wkInput, wkExpected, wkPort,
            portOwner, wkStdout, wkResponses>>

\* ---- the argument vector Start builds
VARIABLES
  permissions,  \* c.permissions: nil, or All, Allow and Deny
  argBinding,   \* the binding whose Start built args ("none": not built)
  args          \* the flags following "run -q"

argVars == <<permissions, argBinding, args>>

\* ---- the key-exchange example: Alice (initiator) and Bob (worker)
VARIABLES
  aPc,          \* Alice: "idle", "waiting" (request posted), "fatal"
  aSendSeq, aRecvSeq, aRatchet, aPending,
  aKeys,        \* Alice's current keys [ab, ba]
  aWin,         \* Alice's key windows [ab, ba]
  aDone,        \* exchanges Alice has completed
  bAlive,       \* Bob's process is running
  bSendSeq, bRecvSeq, bRatchet,
  bKeys,        \* Bob's current keys [ab, ba]
  bWin,         \* Bob's key windows [ab, ba]
  bMsgCount,    \* Bob's messageCount: the requests he has accepted
  bLast,        \* what Bob's handler did with the last request it got
  reqWire,      \* Alice's request in transit
  reqSent,      \* every request Alice has put on the network
  respWire,     \* the answer in transit to Alice
  respSent,     \* every encrypted response Bob has put on the network
  respAck,      \* the clear "ack" member of the answer in transit
  kxLost        \* a request or a response has been lost in transit

kxVars == <<aPc, aSendSeq, aRecvSeq, aRatchet, aPending, aKeys, aWin, aDone,
            bAlive, bSendSeq, bRecvSeq, bRatchet, bKeys, bWin, bMsgCount,
            bLast, reqWire, reqSent, respWire, respSent, respAck, kxLost>>

\* ---- the classification of one decoded inbound object
VARIABLES
  inObj,        \* the decoded object: which of its fields are there
  goClass,      \* what the controller's read loop took it for
  tsClass       \* what the worker's processMessage took it for

clsVars == <<inObj, goClass, tsClass>>

\* ---- the lookup of the worker runtime's configuration file
VARIABLES
  lkOs,         \* "unix" or "windows": the path rules of package filepath
  lkFs,         \* the config files there are: <<directory, name>>
  lkCache,      \* cachedConfigLookups: script path -> result, or Absent
  lkPc,         \* per Start: "idle", "check", "walk", "store", "storing", "done"
  lkPath,       \* per Start: the script path it looks up
  lkResult,     \* per Start: what locateDenoConfigFile returns
  lkStat,       \* per Start: the call has asked the filesystem (os.Stat)
  lkAfter,      \* per Start: an earlier call for its path had returned
  lkFirst,      \* script path -> what the first call that returned gave
  lkRace,       \* two accesses to the map have overlapped, one a write
  lkFatal       \* the Go runtime has stopped the process on such an access

lkVars == <<lkOs, lkFs, lkCache, lkPc, lkPath, lkResult, lkStat, lkAfter,
            lkFirst, lkRace, lkFatal>>

\* ---- the worker's reader of its standard input
VARIABLES
  rdStream,     \* the bytes the controller writes, in order
  rdPos,        \* how many of them the reader has got in chunks so far
  rdBuffer,     \* buffer: the text kept for the next chunk
  rdHanded      \* the lines processMessage has gone on to parse, in order

rdVars == <<rdStream, rdPos, rdBuffer, rdHanded>>

\* ---- one Call of the controller and what the worker writes during it
VARIABLES
  stOut,        \* the lines the worker has written to its stdout, in order
  stRead,       \* how many of them the read loop has scanned
  stReaderPc,   \* the read loop: "scan", or "notify" (inside c.notifyFunc)
  stCall,       \* the Call: "idle", "waiting", "returned", "cancelled"
  stPending,    \* the Call's id is a key of c.pending
  stChan,       \* the Responses in the Call's channel
  stWorker,     \* the worker: "idle", "invoking", "answered"
  stNotified,   \* how many times the notification handler has been called
  stG,          \* the handler goroutines started and not yet run, per kind
  stIn,         \* the lines the controller has written to the worker
  stBadRead     \* the unparsable lines the read loop has scanned

stVars == <<stOut, stRead, stReaderPc, stCall, stPending, stChan, stWorker,
            stNotified, stG, stIn, stBadRead>>

nxVars == <<lkVars, rdVars, stVars>>

exVars == <<wkVars, argVars, kxVars, clsVars, nxVars>>

vars == <<rpcVars, lifeVars, exVars>>

\* ------------------------------------------------------------- messages
NoResp == [id |-> 0, err |-> FALSE]
NoLine == [kind |-> "none", id |-> 0, err |-> FALSE]
MkLine(k, i, e) == [kind |-> k, id |-> i, err |-> e]

\* what the worker can write as one line of stdout
Lines ==
  {MkLine("blank", 0, FALSE), MkLine("badjson", 0, FALSE),
   MkLine("notification", 0, FALSE),
   MkLine("respNoId", 0, FALSE), MkLine("respBadShape", 0, FALSE)}
  \cup {MkLine("request", i, FALSE) : i \in WorkerReqIds}
  \cup {MkLine("response", i, e) : i \in Ids, e \in BOOLEAN}

NoResult == [kind |-> "none", id |-> 0]
NoReq == [pc |-> "none", id |-> 0, method |-> "", code |-> 0]

\* the program is dead once a goroutine has panicked
Alive == readerPc # "panicked"

\* ------------------------------------------------------------------ Init
\* lines 467-476, 685: the client as main constructs it, with both handlers
RpcInit ==
  /\ mu = "free"
  /\ nextID = 1
  /\ pending = {}
  /\ chan = [i \in Ids |-> <<>>]
  /\ callPc = [c \in Callers |-> "idle"]
  /\ callId = [c \in Callers |-> 0]
  /\ callResp = [c \in Callers |-> NoResp]
  /\ callResult = [c \in Callers |-> NoResult]
  /\ readerPc = "scan"
  /\ line = NoLine
  /\ nRead = 0
  /\ reqG = [g \in ReqSlots |-> NoReq]
  /\ stdin = EmptyBag
  /\ notifyFunc = TRUE
  /\ requestFunc = TRUE
  /\ orphans = {}

\* ------------------------------------------------------- RPCClient.Call
\* lines 699-731: the methods main invokes through Call: the first is
\* "health", the last is "shutdown"
CallMethod(c) ==
  IF c = NumCalls THEN "shutdown" ELSE IF c = 1 THEN "health" ELSE "echo"

\* an allocation that leaves the counter where it was
IdAfterStuck(id) == id

\* line 481: c.nextID++
IdAfter(id) == id + 1

\* lines 479-498: lock, take the next id, register the channel, unlock;
\* marshal the Request: on error Call returns it, else the goroutine enters
\* c.stdin.Write (c.mu is not held).
\* The Call goroutines are numbered in the order in which they take c.mu.
CallAlloc(c, marshalOk) ==
  /\ Alive /\ callPc[c] = "idle" /\ mu = "free"
  /\ \A d \in Callers : d < c => callPc[d] # "idle"
  /\ callId' = [callId EXCEPT ![c] = nextID]
  /\ nextID' = IdAfter(nextID)
  /\ pending' = pending \cup {nextID}
  /\ chan' = [chan EXCEPT ![nextID] = <<>>]
  /\ IF marshalOk
       THEN /\ callPc' = [callPc EXCEPT ![c] = "writing"]
            /\ UNCHANGED callResult
       ELSE /\ callPc' = [callPc EXCEPT ![c] = "returned"]
            /\ callResult' = [callResult EXCEPT ![c] = [kind |-> "marshalErr", id |-> 0]]
  /\ UNCHANGED <<mu, callResp, readerPc, line, nRead, reqG, stdin, notifyFunc,
                 requestFunc, orphans, lifeVars, exVars>>

\* one frame more on the worker's stdin
Written(frame) == stdin (+) SetToBag({frame})

\* line 498-500: Write returns (writeOk: without error); on error Call returns it
CallWriteEnd(c, writeOk) ==
  /\ Alive /\ callPc[c] = "writing"
  /\ IF writeOk
       THEN /\ stdin' = Written([kind |-> "request", id |-> callId[c], code |-> 0])
            /\ callPc' = [callPc EXCEPT ![c] = "waiting"]
            /\ UNCHANGED callResult
       ELSE /\ callPc' = [callPc EXCEPT ![c] = "returned"]
            /\ callResult' = [callResult EXCEPT ![c] = [kind |-> "writeErr", id |-> 0]]
            /\ UNCHANGED stdin
  /\ UNCHANGED <<mu, nextID, pending, chan, callId, callResp, readerPc,
                 line, nRead, reqG, notifyFunc, requestFunc, orphans, lifeVars, exVars>>

\* line 503: select takes resp := <-respChan
CallRecv(c) ==
  /\ Alive /\ callPc[c] = "waiting"
  /\ chan[callId[c]] # <<>>
  /\ callResp' = [callResp EXCEPT ![c] = Head(chan[callId[c]])]
  /\ chan' = [chan EXCEPT ![callId[c]] = Tail(@)]
  /\ callPc' = [callPc EXCEPT ![c] = "gotResp"]
  /\ UNCHANGED <<mu, nextID, pending, callId, callResult, readerPc,
                 line, nRead, reqG, stdin, notifyFunc, requestFunc, orphans, lifeVars, exVars>>

\* a Call that hands an error-shaped Response back as a result
ResultOfIgnoringError(resp) == [kind |-> "result", id |-> resp.id]

\* lines 508-519: what Call returns for the response it received
\* (json.Unmarshal of the result into the caller's shape is not modelled as failing)
ResultOf(resp) ==
  IF resp.err THEN [kind |-> "rpcError", id |-> resp.id]
              ELSE [kind |-> "result", id |-> resp.id]

\* lines 504-519: lock, delete the pending entry, unlock, return
\* (with the entry deleted nothing refers to the channel any more)
CallFinish(c) ==
  /\ Alive /\ callPc[c] = "gotResp" /\ mu = "free"
  /\ pending' = pending \ {callId[c]}
  /\ chan' = [chan EXCEPT ![callId[c]] = <<>>]
  /\ callResult' = [callResult EXCEPT ![c] = ResultOf(callResp[c])]
  /\ callPc' = [callPc EXCEPT ![c] = "returned"]
  /\ UNCHANGED <<mu, nextID, callId, callResp, readerPc, line,
                 nRead, reqG, stdin, notifyFunc, requestFunc, orphans, lifeVars, exVars>>

\* line 520: select takes <-ctx.Done(): the caller has cancelled the context
\* it passed to Call, or its deadline has passed
CallCtxDone(c) ==
  /\ Alive /\ callPc[c] = "waiting"
  /\ callPc' = [callPc EXCEPT ![c] = "cancelled"]
  /\ UNCHANGED <<mu, nextID, pending, chan, callId, callResp,
                 callResult, readerPc, line, nRead, reqG, stdin, notifyFunc,
                 requestFunc, orphans, lifeVars, exVars>>

\* a cancellation branch that forgets delete(c.pending, id)
PendingAfterCancelKept(p, id) == p

\* the pending keys left after the cancellation branch, lines 521-523
PendingAfterCancel(p, id) == p \ {id}

\* lines 521-524: lock, delete the pending entry, unlock, return ctx.Err()
\* (with the entry deleted nothing refers to the channel any more)
CallCancelReturn(c) ==
  /\ Alive /\ callPc[c] = "cancelled" /\ mu = "free"
  /\ pending' = PendingAfterCancel(pending, callId[c])
  /\ chan' = [chan EXCEPT ![callId[c]] =
                 IF callId[c] \in pending' THEN @ ELSE <<>>]
  /\ callResult' = [callResult EXCEPT ![c] = [kind |-> "ctxErr", id |-> 0]]
  /\ callPc' = [callPc EXCEPT ![c] = "returned"]
  /\ UNCHANGED <<mu, nextID, callId, callResp, readerPc, line,
                 nRead, reqG, stdin, notifyFunc, requestFunc, orphans, lifeVars, exVars>>

\* ------------------------------------------- RPCClient.handleIncoming
U_reader == <<nextID, callPc, callId, callResp, callResult, stdin,
              notifyFunc, requestFunc>>

\* lines 529-533: an empty line is skipped
ReadBlank ==
  /\ Alive /\ readerPc = "scan" /\ nRead < MaxInbound
  /\ line' = NoLine
  /\ nRead' = nRead + 1
  /\ UNCHANGED <<mu, pending, chan, readerPc, reqG, orphans, U_reader, lifeVars, exVars>>

\* lines 535-539: a line that is not a JSON object is logged and skipped
ReadBadJson ==
  /\ Alive /\ readerPc = "scan" /\ nRead < MaxInbound
  /\ line' = NoLine
  /\ nRead' = nRead + 1
  /\ UNCHANGED <<mu, pending, chan, readerPc, reqG, orphans, U_reader, lifeVars, exVars>>

\* lines 542-549: method and no id: c.notifyFunc is called by the read loop
ReadNotification ==
  /\ Alive /\ readerPc = "scan" /\ nRead < MaxInbound
  /\ line' = NoLine
  /\ nRead' = nRead + 1
  /\ readerPc' = IF notifyFunc THEN "notify" ELSE "scan"
  /\ UNCHANGED <<mu, pending, chan, reqG, orphans, U_reader, lifeVars, exVars>>

\* line 548: c.notifyFunc returns to the read loop
NotifyReturn ==
  /\ Alive /\ readerPc = "notify"
  /\ readerPc' = "scan"
  /\ UNCHANGED <<mu, pending, chan, line, nRead, reqG, orphans, U_reader, lifeVars, exVars>>

FreeSlots == {g \in ReqSlots : reqG[g].pc = "none"}

\* lines 550-578: method and id: a goroutine is started for the Request
ReadRequest(i, m) ==
  /\ Alive /\ readerPc = "scan" /\ nRead < MaxInbound
  /\ FreeSlots # {}
  /\ line' = NoLine
  /\ nRead' = nRead + 1
  /\ LET g == CHOOSE x \in FreeSlots : \A y \in FreeSlots : x <= y
     IN reqG' = [reqG EXCEPT ![g] = [pc |-> "run", id |-> i, method |-> m,
                                     code |-> 0]]
  /\ UNCHANGED <<mu, pending, chan, readerPc, orphans, U_reader, lifeVars, exVars>>

\* lines 583-587: no method, and the object does not unmarshal into a
\* JSONRPCResponse (for example "error" is not an object): logged and skipped
ReadBadShape ==
  /\ Alive /\ readerPc = "scan" /\ nRead < MaxInbound
  /\ line' = NoLine
  /\ nRead' = nRead + 1
  /\ UNCHANGED <<mu, pending, chan, readerPc, reqG, orphans, U_reader, lifeVars, exVars>>

\* lines 589-590: no method and id null, absent or not a number:
\* resp.ID.(float64) panics
ReadRespNoId ==
  /\ Alive /\ readerPc = "scan" /\ nRead < MaxInbound /\ mu = "free"
  /\ line' = NoLine
  /\ nRead' = nRead + 1
  /\ readerPc' = "panicked"
  /\ mu' = "reader"
  /\ UNCHANGED <<pending, chan, reqG, orphans, U_reader, lifeVars, exVars>>

\* a lookup that takes the channel of the neighbouring id
PendingKeyOffByOne(id) == IF id > 1 THEN id - 1 ELSE id

\* line 590: the key looked up in c.pending, int(resp.ID.(float64)).
\* Ids on the wire are JSON integers, on which the conversion is exact.
PendingKey(id) == id

\* lines 589-593: lock, look the channel up, send the response to it
\* (the send blocks, with c.mu held, while the channel's buffer is full);
\* a response whose id is not pending is dropped
ReadResponse(i, e) ==
  /\ Alive /\ readerPc = "scan" /\ nRead < MaxInbound /\ mu = "free"
  /\ nRead' = nRead + 1
  /\ IF PendingKey(i) \in pending
       THEN IF Len(chan[PendingKey(i)]) < 1
              THEN /\ chan' = [chan EXCEPT ![PendingKey(i)] =
                                  Append(@, [id |-> i, err |-> e])]
                   /\ line' = NoLine
                   /\ UNCHANGED <<mu, readerPc, orphans>>
              ELSE /\ readerPc' = "send"
                   /\ mu' = "reader"
                   /\ line' = MkLine("response", i, e)
                   /\ UNCHANGED <<chan, orphans>>
       ELSE /\ orphans' = IF \E c \in Callers : callId[c] = i /\ callResult[c].kind = "ctxErr"
                            THEN orphans \cup {i} ELSE orphans
            /\ line' = NoLine
            /\ UNCHANGED <<mu, readerPc, chan>>
  /\ UNCHANGED <<pending, reqG, U_reader, lifeVars, exVars>>

\* lines 591-593: the blocked send completes, c.mu is unlocked
ReaderSend ==
  /\ Alive /\ readerPc = "send"
  /\ Len(chan[PendingKey(line.id)]) < 1
  /\ chan' = [chan EXCEPT ![PendingKey(line.id)] =
                 Append(@, [id |-> line.id, err |-> line.err])]
  /\ readerPc' = "scan"
  /\ mu' = "free"
  /\ line' = NoLine
  /\ UNCHANGED <<pending, nRead, reqG, orphans, U_reader, lifeVars, exVars>>

\* line 529: scanner.Scan() returns false (EOF or read error): the loop ends
ReadEOF ==
  /\ Alive /\ readerPc = "scan"
  /\ readerPc' = "done"
  /\ UNCHANGED <<mu, pending, chan, line, nRead, reqG, orphans, U_reader, lifeVars, exVars>>

\* ------------------------------------ dispatch goroutine, lines 553-577
U_req == <<mu, nextID, pending, chan, callPc, callId, callResp,
           callResult, readerPc, line, nRead, notifyFunc, requestFunc, orphans>>

\* a dispatch that answers a failed handler with a result Response
ResponseCodeErrorAsResult(hasFunc, handlerOk) ==
  IF hasFunc THEN 0 ELSE -32601

\* lines 558-573: the error code of the Response built for a Request
\* (0: a result Response)
ResponseCode(hasFunc, handlerOk) ==
  IF hasFunc THEN (IF handlerOk THEN 0 ELSE -32603) ELSE -32601

\* lines 625-646: handleRequest, the function main registers as requestFunc,
\* returns a result (TRUE) for the methods of its switch and an error
\* ("unknown method") for every other method
KnownMethods == {"getConfig", "shouldContinue"}
HandleRequest(method) == method \in KnownMethods

\* lines 554-576: c.requestFunc returns (or is nil), resp is built and the
\* goroutine enters c.stdin.Write; c.mu is not held
ReqHandlerReturn(g) ==
  /\ Alive /\ reqG[g].pc = "run"
  /\ reqG' = [reqG EXCEPT ![g].pc = "writing",
                          ![g].code = ResponseCode(requestFunc,
                                                   HandleRequest(reqG[g].method))]
  /\ UNCHANGED <<stdin, U_req, lifeVars, exVars>>

\* line 576: Write returns (writeOk: without error); its error is ignored
ReqWriteEnd(g, writeOk) ==
  /\ Alive /\ reqG[g].pc = "writing"
  /\ reqG' = [reqG EXCEPT ![g].pc = "done"]
  /\ stdin' = IF writeOk
                THEN Written([kind |-> "response", id |-> reqG[g].id,
                                       code |-> reqG[g].code])
                ELSE stdin
  /\ UNCHANGED <<U_req, lifeVars, exVars>>

\* ================================================================ DenoClient
\* the optional operations of the typed clients
OptionalOps == {"close", "modifyPlan"}
NoAns == [kind |-> "none", code |-> 0]
NoOptResult == [err |-> "none", code |-> 0, ret |-> "none"]

\* a nil RootCAs (or no tls.Config at all) makes the HTTP client trust the
\* host's root set
HostRoots == {<<"hostRoots", 0>>}
\* the certificate worker k sends in its handshake line
ServerCert(k) == <<"serverCert", k>>

LifeInit ==
  /\ binding \in {"stdio", "secure"}
  /\ wStdin = {}
  /\ optDefined \in (IF binding = "stdio" THEN SUBSET OptionalOps ELSE {{}})
  /\ optOp = "none"
  /\ optAns = NoAns
  /\ optResult = NoOptResult
  /\ lcPc = "idle"
  /\ nStarts = 0
  /\ procs = <<>>
  /\ process = 0
  /\ socket = "nil"
  /\ lcCtxDone = FALSE
  /\ healthAns = "none"
  /\ hsLine = "none"
  /\ hsLog = <<>>
  /\ tlsRoots = HostRoots
  /\ startResult = "none"
  /\ stopResult = "none"

\* the process c.process refers to is running
CurRunning == process > 0 /\ procs[process] = "running"

\* c.process.Process.Kill() on the current worker (no effect once it has ended)
Killed(ps) == IF CurRunning THEN [ps EXCEPT ![process] = "killed"] ELSE ps

\* -------------------------------------------- the worker (environment)
\* the worker process ends by itself
WorkerExit(code) ==
  /\ CurRunning
  /\ procs' = [procs EXCEPT ![process] = code]
  /\ UNCHANGED <<binding, lcPc, nStarts, process, socket, lcCtxDone, healthAns,
                 hsLine, hsLog, tlsRoots, startResult, stopResult, rpcVars, optVars, wStdin, exVars>>

\* stdio binding: the worker writes its Response to the health Request
WorkerAnswerHealth(a) ==
  /\ binding = "stdio" /\ lcPc = "health" /\ CurRunning /\ healthAns = "none"
  /\ healthAns' = a
  /\ UNCHANGED <<binding, lcPc, nStarts, procs, process, socket, lcCtxDone,
                 hsLine, hsLog, tlsRoots, startResult, stopResult, rpcVars, optVars, wStdin, exVars>>

\* secure binding: the worker writes its first line to stdout
WorkerWriteHandshake(k) ==
  /\ binding = "secure" /\ lcPc = "handshake" /\ CurRunning /\ hsLine = "none"
  /\ hsLine' = k
  /\ UNCHANGED <<binding, lcPc, nStarts, procs, process, socket, lcCtxDone,
                 healthAns, hsLog, tlsRoots, startResult, stopResult, rpcVars, optVars, wStdin, exVars>>

\* secure binding: the worker's HTTPS server starts answering GET /health
WorkerServeHealth(st) ==
  /\ binding = "secure" /\ lcPc = "ready" /\ CurRunning /\ healthAns = "none"
  /\ healthAns' = st
  /\ UNCHANGED <<binding, lcPc, nStarts, procs, process, socket, lcCtxDone,
                 hsLine, hsLog, tlsRoots, startResult, stopResult, rpcVars, optVars, wStdin, exVars>>

\* the context the caller passed to Start is cancelled or reaches its deadline
LcCancelCtx ==
  /\ nStarts > 0 /\ ~lcCtxDone
  /\ lcCtxDone' = TRUE
  /\ UNCHANGED <<binding, lcPc, nStarts, procs, process, socket, healthAns,
                 hsLine, hsLog, tlsRoots, startResult, stopResult, rpcVars, optVars, wStdin, exVars>>

\* exec.CommandContext(ctx, ...): the process is killed once ctx is done
CtxKill ==
  /\ lcCtxDone /\ CurRunning
  /\ procs' = Killed(procs)
  /\ UNCHANGED <<binding, lcPc, nStarts, process, socket, lcCtxDone, healthAns,
                 hsLine, hsLog, tlsRoots, startResult, stopResult, rpcVars, optVars, wStdin, exVars>>

\* ---------------------------------------- stdio binding: DenoClient.Start
\* lines 83-181: Start returns an error before a worker runs: the script URL
\* does not parse or resolve ("resolve": c.process is not assigned), or a pipe
\* or the process cannot be created ("spawn": c.process is assigned); the
\* secure binding's Start has by then installed a fresh tls.Config (line 375)
StartFail(stage) ==
  /\ lcPc = "idle" /\ nStarts < MaxStarts
  /\ nStarts' = nStarts + 1
  /\ lcCtxDone' = FALSE
  /\ process' = IF stage = "spawn" THEN -1 ELSE process
  /\ startResult' = "spawnErr"
  /\ hsLog' = <<>>
  /\ tlsRoots' = IF binding = "secure" THEN HostRoots ELSE tlsRoots
  /\ UNCHANGED <<binding, lcPc, procs, socket, healthAns, hsLine,
                 stopResult, rpcVars, optVars, wStdin, exVars>>

\* lines 83-193: the worker is started, the jsocket is created and Start
\* blocks in c.Socket.Call(ctx, "health", nil, &response)
StartStdio ==
  /\ binding = "stdio" /\ lcPc = "idle" /\ nStarts < MaxStarts
  /\ nStarts' = nStarts + 1
  /\ lcCtxDone' = FALSE
  /\ procs' = Append(procs, "running")
  /\ process' = Len(procs) + 1
  /\ socket' = "open"
  /\ healthAns' = "none"
  /\ hsLog' = <<"callHealth">>
  /\ startResult' = "none"
  /\ lcPc' = "health"
  /\ UNCHANGED <<binding, hsLine, tlsRoots, stopResult, rpcVars, optVars, wStdin, exVars>>

\* jsocket.Call for "health": the <<err # nil, response.Ok>> it can return now:
\* the worker's Response, or an error (error Response, connection closed
\* because the worker is gone, ctx done)
SocketCallHealth ==
  (IF healthAns \in {"true", "false"} THEN {<<FALSE, healthAns = "true">>} ELSE {})
  \cup
  (IF healthAns = "rpcerr" \/ ~CurRunning \/ lcCtxDone THEN {<<TRUE, FALSE>>} ELSE {})

\* a Start that does not look at response.Ok
StdioStartResultNoOkCheck(callErr, ok) ==
  IF callErr THEN "healthCallErr" ELSE "nil"

\* lines 193-200: what Start returns after the health Call
StdioStartResult(callErr, ok) ==
  IF callErr THEN "healthCallErr"
  ELSE IF ~ok THEN "unhealthy"
  ELSE "nil"

\* lines 193-200: the health Call returns and Start returns
StartHealthReturn ==
  /\ lcPc = "health"
  /\ \E out \in SocketCallHealth :
       startResult' = StdioStartResult(out[1], out[2])
  /\ lcPc' = "idle"
  /\ UNCHANGED <<binding, nStarts, procs, process, socket, lcCtxDone, healthAns,
                 hsLine, hsLog, tlsRoots, stopResult, rpcVars, optVars, wStdin, exVars>>

\* ----------------------------------------- stdio binding: DenoClient.Stop
\* jsocket.Notify / jsocket.Close succeed on an open connection to a live worker
SocketUsable == socket = "open" /\ CurRunning

\* lines 204-217: shutdown is notified and the socket closed (either failing
\* makes Stop return at once), then Stop blocks in c.process.Wait()
StopStdio ==
  /\ binding = "stdio" /\ lcPc = "idle"
  /\ IF socket # "nil" /\ ~SocketUsable
       THEN /\ stopResult' = "error"
            /\ UNCHANGED <<lcPc, socket, hsLog>>
       ELSE /\ socket' = IF socket = "nil" THEN "nil" ELSE "closed"
            /\ hsLog' = IF socket = "nil" THEN hsLog ELSE Append(hsLog, "notifyShutdown")
            /\ IF process # 0
                 THEN lcPc' = "stopWait" /\ stopResult' = "none"
                 ELSE lcPc' = "idle" /\ stopResult' = "nil"
  /\ UNCHANGED <<binding, nStarts, procs, process, lcCtxDone, healthAns, hsLine,
                 tlsRoots, startResult, rpcVars, optVars, wStdin, exVars>>

\* lines 214-218: what Stop returns for the error of c.process.Wait()
WaitResult(st) == IF st = "exited0" THEN "nil" ELSE "error"

\* lines 213-218: c.process.Wait() returns once the process has ended
\* (at once, with an error, for a process that was never started)
StopWaitReturn ==
  /\ lcPc = "stopWait"
  /\ process > 0 => procs[process] # "running"
  /\ stopResult' = IF process > 0 THEN WaitResult(procs[process]) ELSE "error"
  /\ lcPc' = "idle"
  /\ UNCHANGED <<binding, nStarts, procs, process, socket, lcCtxDone, healthAns,
                 hsLine, hsLog, tlsRoots, startResult, rpcVars, optVars, wStdin, exVars>>

\* ------------------- stdio binding: the optional operations of the bridge
\* DenoClientEphemeralResource.Close line 72, DenoClientResource.ModifyPlan
\* line 125: the operation blocks in c.Client.Socket.Call
OptCall(op) ==
  /\ binding = "stdio" /\ lcPc = "idle" /\ socket # "nil"
  /\ lcPc' = "optCall"
  /\ optOp' = op
  /\ optAns' = NoAns
  /\ optResult' = NoOptResult
  /\ UNCHANGED <<binding, nStarts, procs, process, socket, lcCtxDone, healthAns,
                 hsLine, hsLog, tlsRoots, startResult, stopResult, wStdin,
                 optDefined, rpcVars, exVars>>

\* ephemeral_resource.ts lines 30-35, resource.ts lines 65-89: what the
\* worker can answer to an optional method: method-not-found when the script
\* does not define it; else the method's result (close returns nothing) or
\* the error it throws
WorkerOptAnswers(op, defined) ==
  IF op \notin defined
    THEN {[kind |-> "rpcError", code |-> -32601]}
    ELSE {[kind |-> "result", code |-> 0], [kind |-> "rpcError", code |-> -32603]}
         \cup (IF op = "close" THEN {[kind |-> "void", code |-> 0]} ELSE {})

\* the worker writes its Response to the optional method's Request
WorkerAnswerOpt ==
  /\ lcPc = "optCall" /\ socket = "open" /\ CurRunning /\ optAns = NoAns
  /\ optAns' \in WorkerOptAnswers(optOp, optDefined)
  /\ UNCHANGED <<binding, lcPc, nStarts, procs, process, socket, lcCtxDone,
                 healthAns, hsLine, hsLog, tlsRoots, startResult, stopResult,
                 wStdin, optDefined, optOp, optResult, rpcVars, exVars>>

\* jsocket.Call for an optional method: what it can return now: the error of
\* an error Response, the decoded result (a Response without a result leaves
\* the response pointer nil or decodes into the zero value), or a transport
\* error (socket closed, worker gone, ctx done)
SocketCallOpt ==
  (CASE optAns.kind = "rpcError" ->
          {[err |-> "rpc", code |-> optAns.code, resp |-> "nil"]}
     [] optAns.kind = "result" ->
          {[err |-> "none", code |-> 0, resp |-> "value"]}
     [] optAns.kind = "void" ->
          {[err |-> "none", code |-> 0, resp |-> r] : r \in {"nil", "zero"}}
     [] OTHER -> {})
  \cup
  (IF socket # "open" \/ ~CurRunning \/ lcCtxDone
     THEN {[err |-> "transport", code |-> 0, resp |-> "nil"]} ELSE {})

\* a test that takes every RPC error for method-not-found
IsMethodNotFoundAnyRpc(out) == out.err = "rpc"

\* deno_client_ephemeral_resource.go lines 75-78, deno_client_resource.go
\* lines 128-131: errors.As(err, &rpcErr) && rpcErr.Code == CodeMethodNotFound
IsMethodNotFound(out) == out.err = "rpc" /\ out.code = -32601

\* deno_client_ephemeral_resource.go lines 70-86: what Close returns
\* ("panic": response.Done is read through a nil pointer)
CloseResult(out) ==
  IF out.err # "none"
    THEN (IF IsMethodNotFound(out) THEN "nil" ELSE "error")
    ELSE IF out.resp = "nil" THEN "panic"
    ELSE IF out.resp = "zero" THEN "error"
    ELSE "nil"

\* deno_client_resource.go lines 123-137: what ModifyPlan returns
ModifyPlanResult(out) ==
  IF out.err # "none"
    THEN (IF IsMethodNotFound(out) THEN "nilnil" ELSE "error")
    ELSE "response"

\* the Socket.Call of the optional operation returns and the operation returns
OptReturn ==
  /\ lcPc = "optCall"
  /\ \E out \in SocketCallOpt :
       optResult' = [err |-> out.err, code |-> out.code,
                     ret |-> IF optOp = "close" THEN CloseResult(out)
                                                ELSE ModifyPlanResult(out)]
  /\ lcPc' = "idle"
  /\ UNCHANGED <<binding, nStarts, procs, process, socket, lcCtxDone, healthAns,
                 hsLine, hsLog, tlsRoots, startResult, stopResult, wStdin,
                 optDefined, optOp, optAns, rpcVars, exVars>>

\* --------------------------------------- secure binding: DenoClient.Start
\* a client message that also carries the private key
ClientMsgWithKey == [cert |-> "clientCertPEM", key |-> "clientKeyPEM", port |-> 0]

\* lines 489-493: clientMsg := handshakeMessage{Cert: certPEM}
ClientMsg == [cert |-> "clientCertPEM", key |-> "", port |-> 0]

\* lines 356-361, 494-495: the JSON fields encoder.Encode writes for a
\* handshakeMessage: cert always, key and port unless empty (omitempty)
EncodeHandshake(msg) ==
  {<<"cert", msg.cert>>}
  \cup (IF msg.key # "" THEN {<<"key", msg.key>>} ELSE {})
  \cup (IF msg.port # 0 THEN {<<"port", "number">>} ELSE {})

\* a Start that closes the worker's stdin before writing to it
StdinHandshakeCloseFirst == <<"closeStdin", "writeCert">>

\* lines 494-499: what Start does on the worker's stdin, in order
StdinHandshake == <<"writeCert", "closeStdin">>

\* lines 364-502: a fresh tls.Config is installed, the worker is started,
\* {cert} is written to its stdin and stdin is closed, then Start blocks in
\* parseHandshake; when the write fails Start stops the worker and returns
\* the error
StartSecure(writeOk) ==
  /\ binding = "secure" /\ lcPc = "idle" /\ nStarts < MaxStarts
  /\ nStarts' = nStarts + 1
  /\ lcCtxDone' = FALSE
  /\ process' = Len(procs) + 1
  /\ healthAns' = "none"
  /\ hsLine' = "none"
  /\ tlsRoots' = HostRoots
  /\ IF writeOk
       THEN /\ procs' = Append(procs, "running")
            /\ hsLog' = StdinHandshake
            /\ wStdin' = EncodeHandshake(ClientMsg)
            /\ startResult' = "none"
            /\ lcPc' = "handshake"
       ELSE /\ procs' = Append(procs, "killed")
            /\ hsLog' = <<>>
            /\ wStdin' = {}
            /\ startResult' = "writeErr"
            /\ lcPc' = "idle"
  /\ UNCHANGED <<binding, socket, stopResult, rpcVars, optVars, exVars>>

\* a parser that accepts a handshake line without a port
ParseHandshakeNoPortCheck(l) ==
  CASE l = "garbage" -> "parseErr"
    [] l = "noCert"  -> "missingCert"
    [] OTHER         -> "ok"

\* lines 563-578: the reader goroutine's verdict on the first stdout line
ParseHandshake(l) ==
  CASE l = "garbage" -> "parseErr"
    [] l = "noPort"  -> "missingPort"
    [] l = "noCert"  -> "missingCert"
    [] OTHER         -> "ok"

\* lines 515-524: pem.Decode and x509.ParseCertificate of the received cert
\* (the line without a port carries a good certificate)
CertDecodes(l) == l \in {"valid", "noPort"}

\* lines 502-527, 604-608: the handshake line is there: on a parse error Start
\* stops the worker and returns; else the server certificate becomes the one
\* root of the TLS config and Start goes on to waitForReady
HandshakeLine ==
  /\ lcPc = "handshake" /\ hsLine # "none"
  /\ IF ParseHandshake(hsLine) = "ok" /\ CertDecodes(hsLine)
       THEN /\ tlsRoots' = {ServerCert(process)}
            /\ hsLog' = hsLog \o <<"readLine", "installRoot">>
            /\ lcPc' = "ready"
            /\ UNCHANGED <<procs, startResult>>
       ELSE /\ procs' = Killed(procs)
            /\ hsLog' = Append(hsLog, "readLine")
            /\ startResult' = "handshakeErr"
            /\ lcPc' = "idle"
            /\ UNCHANGED tlsRoots
  /\ UNCHANGED <<binding, nStarts, process, socket, lcCtxDone, healthAns,
                 hsLine, stopResult, rpcVars, optVars, wStdin, exVars>>

\* lines 579-583, 588-603: the worker ended: EOF on stdout or processExited
HandshakeExited ==
  /\ lcPc = "handshake" /\ ~CurRunning
  /\ startResult' = "exited"
  /\ lcPc' = "idle"
  /\ UNCHANGED <<binding, nStarts, procs, process, socket, lcCtxDone, healthAns,
                 hsLine, hsLog, tlsRoots, stopResult, rpcVars, optVars, wStdin, exVars>>

\* lines 549, 600-601, 503-507: the 30s timer (or ctx) is done: Start stops
\* the worker and returns the timeout error
HandshakeTimeout ==
  /\ lcPc = "handshake"
  /\ procs' = Killed(procs)
  /\ startResult' = "timeout"
  /\ lcPc' = "idle"
  /\ UNCHANGED <<binding, nStarts, process, socket, lcCtxDone, healthAns,
                 hsLine, hsLog, tlsRoots, stopResult, rpcVars, optVars, wStdin, exVars>>

\* line 654: the statuses of GET /health that mean ready
HealthStatusOk(st) == st \in {"200", "204"}

\* lines 649-656: a tick of waitForReady: GET /health; a request error or
\* another status goes round the loop again, 200 or 204 makes Start return nil
ReadyPoll ==
  /\ lcPc = "ready"
  /\ hsLog' = IF hsLog[Len(hsLog)] = "getHealth" THEN hsLog
                                                 ELSE Append(hsLog, "getHealth")
  /\ IF CurRunning /\ HealthStatusOk(healthAns)
       THEN startResult' = "nil" /\ lcPc' = "idle"
       ELSE UNCHANGED <<startResult, lcPc>>
  /\ UNCHANGED <<binding, nStarts, procs, process, socket, lcCtxDone, healthAns,
                 hsLine, tlsRoots, stopResult, rpcVars, optVars, wStdin, exVars>>

\* lines 632-648, 535-540: the worker ended while Start waits for readiness
ReadyExited ==
  /\ lcPc = "ready" /\ ~CurRunning
  /\ startResult' = "exited"
  /\ lcPc' = "idle"
  /\ UNCHANGED <<binding, nStarts, procs, process, socket, lcCtxDone, healthAns,
                 hsLine, hsLog, tlsRoots, stopResult, rpcVars, optVars, wStdin, exVars>>

\* lines 624, 645-646, 535-540: the 30s timer (or ctx) is done: Start stops
\* the worker and returns the timeout error
ReadyTimeout ==
  /\ lcPc = "ready"
  /\ procs' = Killed(procs)
  /\ startResult' = "timeout"
  /\ lcPc' = "idle"
  /\ UNCHANGED <<binding, nStarts, process, socket, lcCtxDone, healthAns,
                 hsLine, hsLog, tlsRoots, stopResult, rpcVars, optVars, wStdin, exVars>>

\* ---------------------------------------- secure binding: DenoClient.Stop
\* lines 613-620: kill the process if there is one; Kill fails on a process
\* that has already ended
StopSecure ==
  /\ binding = "secure" /\ lcPc = "idle"
  /\ procs' = Killed(procs)
  /\ stopResult' = IF process > 0 /\ ~CurRunning THEN "error" ELSE "nil"
  /\ UNCHANGED <<binding, lcPc, nStarts, process, socket, lcCtxDone, healthAns,
                 hsLine, hsLog, tlsRoots, startResult, rpcVars, optVars, wStdin, exVars>>

\* ================================================= the handshake worker
\* Two worker programs receive the client handshake on stdin: serveTLS of the
\* reference worker, and the main of the header variant.  The initiator has
\* written its whole {cert} message and closed stdin; the pipe hands it to
\* the worker in wkChunks read chunks, the last one followed by EOF.

\* the most read chunks one message arrives in
MaxChunks == 3

WorkerKinds == {"serveTLS", "header"}
\* the local clients of the worker's port and the certificate each holds
Clients == {"provider", "other"}
ClientCertOf(cl) == IF cl = "provider" THEN ClientMsg.cert ELSE "otherCertPEM"
Sha256Hex(text) == <<"sha256", text>>
NoHeader == <<"sha256", "">>
\* the values a request's X-Client-Cert-Hash header can carry
Headers == {NoHeader, Sha256Hex(ClientMsg.cert), Sha256Hex("otherCertPEM")}
HandshakeOut == [kind |-> "handshake", port |-> wkPort]

WkInit ==
  /\ wkKind = "serveTLS" /\ wkPc = "reading" /\ wkChunks = 1 /\ wkGot = 0
  /\ wkInput = 0 /\ wkExpected = NoHeader /\ wkPort = 0 /\ portOwner = "free"
  /\ wkStdout = <<>> /\ wkResponses = {}

\* readClientCert: one more chunk of Deno.stdin.readable
ReadClientCertChunk ==
  /\ wkKind = "serveTLS" /\ wkPc = "reading" /\ wkGot < wkChunks
  /\ wkGot' = wkGot + 1
  /\ UNCHANGED <<wkKind, wkPc, wkChunks, wkInput, wkExpected, wkPort,
                 portOwner, wkStdout, wkResponses, rpcVars, lifeVars, nxVars, argVars, kxVars, clsVars>>

\* JSON.parse of the text read: a prefix of the message is no JSON document
JsonParses(got, whole) == got = whole

\* readClientCert: the stream ended, what was collected is parsed
ReadClientCertEnd ==
  /\ wkKind = "serveTLS" /\ wkPc = "reading" /\ wkGot = wkChunks
  /\ wkInput' = wkGot
  /\ wkPc' = IF JsonParses(wkGot, wkChunks) THEN "parsed" ELSE "crashed"
  /\ UNCHANGED <<wkKind, wkChunks, wkGot, wkExpected, wkPort, portOwner,
                 wkStdout, wkResponses, rpcVars, lifeVars, nxVars, argVars, kxVars, clsVars>>

\* header variant: readStdin reads once, main parses what that read returned
\* and hashes the certificate
ReadStdin ==
  /\ wkKind = "header" /\ wkPc = "reading" /\ wkGot = 0
  /\ wkGot' = 1
  /\ wkInput' = wkGot'
  /\ IF JsonParses(wkGot', wkChunks)
       THEN wkPc' = "parsed" /\ wkExpected' = Sha256Hex(ClientMsg.cert)
       ELSE wkPc' = "crashed" /\ UNCHANGED wkExpected
  /\ UNCHANGED <<wkKind, wkChunks, wkPort, portOwner, wkStdout, wkResponses,
                 rpcVars, lifeVars, nxVars, argVars, kxVars, clsVars>>

\* serveTLS: Deno.listen on port 0 finds a free port
ListenProbe ==
  /\ wkKind = "serveTLS" /\ wkPc = "parsed"
  /\ wkPort' = 1 /\ portOwner' = "probe" /\ wkPc' = "probed"
  /\ UNCHANGED <<wkKind, wkChunks, wkGot, wkInput, wkExpected, wkStdout,
                 wkResponses, rpcVars, lifeVars, nxVars, argVars, kxVars, clsVars>>

\* serveTLS: listener.close()
CloseProbe ==
  /\ wkKind = "serveTLS" /\ wkPc = "probed"
  /\ portOwner' = "free" /\ wkPc' = "closed"
  /\ UNCHANGED <<wkKind, wkChunks, wkGot, wkInput, wkExpected, wkPort,
                 wkStdout, wkResponses, rpcVars, lifeVars, nxVars, argVars, kxVars, clsVars>>

\* writeServerHandshake
WriteServerHandshake ==
  /\ wkKind = "serveTLS" /\ wkPc = "closed"
  /\ wkStdout' = Append(wkStdout, HandshakeOut) /\ wkPc' = "written"
  /\ UNCHANGED <<wkKind, wkChunks, wkGot, wkInput, wkExpected, wkPort,
                 portOwner, wkResponses, rpcVars, lifeVars, nxVars, argVars, kxVars, clsVars>>

\* another process of the host binds the port while nobody holds it
OtherBinds ==
  /\ wkPort # 0 /\ portOwner = "free"
  /\ portOwner' = "other"
  /\ UNCHANGED <<wkKind, wkPc, wkChunks, wkGot, wkInput, wkExpected, wkPort,
                 wkStdout, wkResponses, rpcVars, lifeVars, nxVars, argVars, kxVars, clsVars>>

\* serveTLS: Deno.serve on the port found before
ServeTLSBind ==
  /\ wkKind = "serveTLS" /\ wkPc = "written"
  /\ IF portOwner = "free"
       THEN portOwner' = "server" /\ wkPc' = "serving"
       ELSE wkPc' = "crashed" /\ UNCHANGED portOwner
  /\ UNCHANGED <<wkKind, wkChunks, wkGot, wkInput, wkExpected, wkPort,
                 wkStdout, wkResponses, rpcVars, lifeVars, nxVars, argVars, kxVars, clsVars>>

\* header variant: Deno.serve binds port 0
HeaderBind ==
  /\ wkKind = "header" /\ wkPc = "parsed"
  /\ wkPort' = 1 /\ portOwner' = "server" /\ wkPc' = "listening"
  /\ UNCHANGED <<wkKind, wkChunks, wkGot, wkInput, wkExpected, wkStdout,
                 wkResponses, rpcVars, lifeVars, nxVars, argVars, kxVars, clsVars>>

\* header variant: onListen writes the handshake line
OnListen ==
  /\ wkKind = "header" /\ wkPc = "listening"
  /\ wkStdout' = Append(wkStdout, HandshakeOut) /\ wkPc' = "serving"
  /\ UNCHANGED <<wkKind, wkChunks, wkGot, wkInput, wkExpected, wkPort,
                 portOwner, wkResponses, rpcVars, lifeVars, nxVars, argVars, kxVars, clsVars>>

\* header variant, POST /message: any header value at all is let through
HeaderStatusAnyPresent(h, expected) == IF h = NoHeader THEN 401 ELSE 200

\* header variant, POST /message: the two checks of the header
HeaderStatus(h, expected) ==
  IF h = NoHeader THEN 401
  ELSE IF h # expected THEN 401
  ELSE 200

\* header variant: a local client posts to /message over TLS
PostMessage(cl, h) ==
  /\ wkKind = "header" /\ wkPc \in {"listening", "serving"}
  /\ wkResponses' = wkResponses \cup
       {[client |-> cl, header |-> h, status |-> HeaderStatus(h, wkExpected),
         secret |-> HeaderStatus(h, wkExpected) = 200]}
  /\ UNCHANGED <<wkKind, wkPc, wkChunks, wkGot, wkInput, wkExpected, wkPort,
                 portOwner, wkStdout, rpcVars, lifeVars, nxVars, argVars, kxVars, clsVars>>

\* serveTLS: what Deno.serve asks of a connecting client's certificate
TlsAdmits(presented, received) == TRUE

\* serveTLS: a local client connects, presenting a client certificate or
\* none, and its request is handed to the application handler
ServeTLSRequest(cl, withCert) ==
  /\ wkKind = "serveTLS" /\ wkPc = "serving"
  /\ LET presented == IF withCert THEN ClientCertOf(cl) ELSE "none" IN
     wkResponses' = wkResponses \cup
       {[client |-> cl, presented |-> presented,
         handled |-> TlsAdmits(presented, ClientMsg.cert)]}
  /\ UNCHANGED <<wkKind, wkPc, wkChunks, wkGot, wkInput, wkExpected, wkPort,
                 portOwner, wkStdout, rpcVars, lifeVars, nxVars, argVars, kxVars, clsVars>>

\* ============================================ the argument vector of Start
\* A permission entry is <<name, scope>>: <<"net", "">> is the entry "net",
\* <<"net", "example.com">> the entry "net=example.com".

\* the most entries of an allow or deny list
MaxPerms == 2

PermEntries == {<<"net", "">>, <<"net", "example.com">>, <<"read", "">>}
PermLists == UNION {[1..n -> PermEntries] : n \in 0..MaxPerms}
NilPermissions == [Nil |-> TRUE, All |-> FALSE, Allow |-> <<>>, Deny |-> <<>>]
PermissionSpecs ==
  {NilPermissions}
    \cup [Nil : {FALSE}, All : BOOLEAN, Allow : PermLists, Deny : PermLists]

\* fmt.Sprintf("--allow-%s", perm) and fmt.Sprintf("--deny-%s", perm)
AllowFlag(perm) == <<"--allow", perm[1], perm[2]>>
DenyFlag(perm) == <<"--deny", perm[1], perm[2]>>
AllowAll == <<"--allow", "all", "">>
AllowNet == AllowFlag(<<"net", "">>)
AllowFlags(list) == [i \in 1..Len(list) |-> AllowFlag(list[i])]
DenyFlags(list) == [i \in 1..Len(list) |-> DenyFlag(list[i])]

\* perm == "net" || strings.HasPrefix(perm, "net=")
IsNet(perm) == perm[1] = "net"
HasNet(list) == \E i \in 1..Len(list) : IsNet(list[i])

ArgInit == permissions = NilPermissions /\ argBinding = "none" /\ args = <<>>

\* stdio Start: the permission flags
StdioPermissionArgs(perms) ==
  IF perms.Nil THEN <<>>
  ELSE IF perms.All THEN <<AllowAll>>
  ELSE AllowFlags(perms.Allow) \o DenyFlags(perms.Deny)

\* secure Start: the permission flags
SecurePermissionArgs(perms) ==
  IF perms.Nil THEN <<AllowNet>>
  ELSE IF perms.All THEN <<AllowAll>>
  ELSE AllowFlags(perms.Allow)
         \o (IF HasNet(perms.Allow) THEN <<>> ELSE <<AllowNet>>)
         \o DenyFlags(perms.Deny)

\* Start of the binding b appends the permission flags to "run -q"
BuildArgs(b) ==
  /\ argBinding = "none"
  /\ argBinding' = b
  /\ args' = IF b = "stdio" THEN StdioPermissionArgs(permissions)
                            ELSE SecurePermissionArgs(permissions)
  /\ UNCHANGED <<permissions, rpcVars, lifeVars, nxVars, wkVars, kxVars, clsVars>>

\* ================================================ the key-exchange example
\* Alice posts encrypted requests to Bob's /message and reads the encrypted
\* answer.  A key is the direction it was derived for and the ratchet
\* counters applied to it since; a message is its clear sequence prefix, the
\* sequence number inside the AAD it was sealed under, and the sealing key.
\* The network may lose a request or a response, deliver a request with
\* another prefix, and replay anything that was sent before.

\* the most requests Alice sends in one session
MaxExchanges == 3
KeyWindowSize == 3

SeqPrefixes == 0..(MaxExchanges + 1)
\* deriveDirectionalKey
DirectionalKey(dir) == [dir |-> dir, chain |-> <<>>]
\* ratchetKey: HKDF of the current key with info "ratchet:<counter>"
RatchetKey(key, counter) == [key EXCEPT !.chain = Append(key.chain, counter)]
\* KeyWindow.add: append, then keep the last KeyWindowSize keys
WindowAdd(win, key) ==
  LET w == Append(win, key) IN
  IF Len(w) > KeyWindowSize THEN Tail(w) ELSE w
WindowKeys(win) == {win[i] : i \in 1..Len(win)}

NoMsg == [kind |-> "none", seq |-> 0, aad |-> 0, key |-> DirectionalKey("none")]
\* encryptMessage: the prefix is seqNum, the AAD names the same number
Seal(key, seqNum) == [kind |-> "sealed", seq |-> seqNum, aad |-> seqNum, key |-> key]
\* an HTTP answer without encrypted data: status 500, or the connection lost
Http500 == [NoMsg EXCEPT !.kind = "http500"]
ConnReset == [NoMsg EXCEPT !.kind = "reset"]
\* decryptMessage: AES-GCM opens under the sealing key and the same AAD
Opens(key, msg, aadSeq) == msg.kind = "sealed" /\ msg.key = key /\ msg.aad = aadSeq
\* the current key first, then the keys of the window
OpensWithAny(key, win, msg, aadSeq) ==
  \E k \in {key} \cup WindowKeys(win) : Opens(k, msg, aadSeq)

\* the replay check of both sides, accepting the last sequence number again
SeqFreshOrSame(seq, last) == seq >= last

\* the replay check of both sides: requestSeq <= recvSeq is refused
SeqFresh(seq, last) == seq > last

NoOutcome == [outcome |-> "none", replayed |-> FALSE, seq |-> 0]

KxInit ==
  /\ aPc = "idle" /\ aSendSeq = 1 /\ aRecvSeq = 0 /\ aRatchet = 0
  /\ aPending = FALSE /\ aDone = 0
  /\ aKeys = [ab |-> DirectionalKey("alice-to-bob"), ba |-> DirectionalKey("bob-to-alice")]
  /\ aWin = [ab |-> <<DirectionalKey("alice-to-bob")>>, ba |-> <<DirectionalKey("bob-to-alice")>>]
  /\ bAlive = TRUE /\ bSendSeq = 1 /\ bRecvSeq = 0 /\ bRatchet = 0
  /\ bKeys = aKeys /\ bWin = aWin /\ bMsgCount = 0 /\ bLast = NoOutcome
  /\ reqWire = NoMsg /\ reqSent = {} /\ respWire = NoMsg /\ respSent = {}
  /\ respAck = FALSE /\ kxLost = FALSE

\* the request Alice's code builds from her present state
AliceNextRequest == Seal(aKeys.ab, aSendSeq)

\* Alice encrypts a message and posts it
AliceSend ==
  /\ aPc = "idle" /\ aSendSeq <= MaxExchanges
  /\ reqWire' = AliceNextRequest
  /\ reqSent' = reqSent \cup {AliceNextRequest}
  /\ aPending' = TRUE
  /\ aSendSeq' = aSendSeq + 1
  /\ aPc' = "waiting"
  /\ UNCHANGED <<aRecvSeq, aRatchet, aKeys, aWin, aDone, bAlive, bSendSeq,
                 bRecvSeq, bRatchet, bKeys, bWin, bMsgCount, bLast, respWire,
                 respSent, respAck, kxLost, rpcVars, lifeVars, nxVars, wkVars, argVars, clsVars>>

\* Bob's decryption of a request: AAD of recvSeq + 1, current key or window
BobOpens(msg) == OpensWithAny(bKeys.ab, bWin.ab, msg, bRecvSeq + 1)
\* the response Bob's code builds from his present state
BobNextResponse == Seal(bKeys.ba, bSendSeq)

\* Bob's POST /message handler on the request msg; toAlice: the request came
\* over Alice's connection, so the answer travels back to her
BobHandle(msg, toAlice) ==
  /\ bAlive
  /\ IF ~BobOpens(msg)
       THEN /\ bLast' = [outcome |-> "undecryptable", replayed |-> ~toAlice, seq |-> msg.seq]
            /\ respWire' = IF toAlice THEN Http500 ELSE respWire
            /\ respAck' = IF toAlice THEN FALSE ELSE respAck
            /\ UNCHANGED <<bAlive, bSendSeq, bRecvSeq, bRatchet, bKeys, bWin,
                           bMsgCount, respSent>>
       ELSE IF ~SeqFresh(msg.seq, bRecvSeq)
       THEN /\ bLast' = [outcome |-> "exit", replayed |-> ~toAlice, seq |-> msg.seq]
            /\ bAlive' = FALSE
            /\ respWire' = IF toAlice THEN ConnReset ELSE respWire
            /\ respAck' = IF toAlice THEN FALSE ELSE respAck
            /\ UNCHANGED <<bSendSeq, bRecvSeq, bRatchet, bKeys, bWin,
                           bMsgCount, respSent>>
       ELSE /\ bLast' = [outcome |-> "accepted", replayed |-> ~toAlice, seq |-> msg.seq]
            /\ bRecvSeq' = msg.seq
            /\ bMsgCount' = bMsgCount + 1
            /\ respWire' = IF toAlice THEN BobNextResponse ELSE respWire
            /\ respAck' = IF toAlice THEN TRUE ELSE respAck
            /\ respSent' = respSent \cup {BobNextResponse}
            /\ bSendSeq' = bSendSeq + 1
            /\ bRatchet' = bRatchet + 1
            /\ bWin' = [ab |-> WindowAdd(bWin.ab, bKeys.ab),
                        ba |-> WindowAdd(bWin.ba, bKeys.ba)]
            /\ bKeys' = [ab |-> RatchetKey(bKeys.ab, bRatchet + 1),
                         ba |-> RatchetKey(bKeys.ba, bRatchet + 1)]
            /\ UNCHANGED bAlive
  /\ UNCHANGED <<aPc, aSendSeq, aRecvSeq, aRatchet, aPending, aKeys, aWin,
                 aDone, reqSent, kxLost, rpcVars, lifeVars, nxVars, wkVars, argVars, clsVars>>

\* Alice's request reaches Bob, its clear prefix being prefix on arrival
DeliverRequest(prefix) ==
  /\ reqWire # NoMsg /\ respWire = NoMsg
  /\ BobHandle([reqWire EXCEPT !.seq = prefix], TRUE)
  /\ reqWire' = NoMsg

\* somebody on the network posts an earlier request of Alice again
ReplayRequest(msg) ==
  /\ msg \in reqSent /\ msg # reqWire
  /\ BobHandle(msg, FALSE)
  /\ UNCHANGED reqWire

\* Alice's request is lost: http.Post returns an error, Alice log.Fatals
LoseRequest ==
  /\ reqWire # NoMsg /\ respWire = NoMsg
  /\ reqWire' = NoMsg /\ aPc' = "fatal" /\ kxLost' = TRUE
  /\ UNCHANGED <<aSendSeq, aRecvSeq, aRatchet, aPending, aKeys, aWin, aDone,
                 bAlive, bSendSeq, bRecvSeq, bRatchet, bKeys, bWin, bMsgCount,
                 bLast, reqSent, respWire, respSent, respAck, rpcVars, lifeVars, nxVars,
                 wkVars, argVars, clsVars>>

\* Bob's response is lost: http.Post returns an error, Alice log.Fatals
LoseResponse ==
  /\ aPc = "waiting" /\ respWire.kind = "sealed"
  /\ respWire' = NoMsg /\ aPc' = "fatal" /\ kxLost' = TRUE
  /\ UNCHANGED <<aSendSeq, aRecvSeq, aRatchet, aPending, aKeys, aWin, aDone,
                 bAlive, bSendSeq, bRecvSeq, bRatchet, bKeys, bWin, bMsgCount,
                 bLast, reqWire, reqSent, respSent, respAck, rpcVars, lifeVars, nxVars,
                 wkVars, argVars, clsVars>>

\* somebody on the network answers Alice with an earlier response of Bob
ReplayResponse(msg) ==
  /\ aPc = "waiting" /\ respWire.kind = "sealed"
  /\ msg \in respSent /\ msg # respWire
  /\ respWire' = msg
  /\ UNCHANGED <<aPc, aSendSeq, aRecvSeq, aRatchet, aPending, aKeys, aWin,
                 aDone, bAlive, bSendSeq, bRecvSeq, bRatchet, bKeys, bWin,
                 bMsgCount, bLast, reqWire, reqSent, respSent, respAck,
                 kxLost, rpcVars, lifeVars, nxVars, wkVars, argVars, clsVars>>

\* the answer reaches Alice with its clear "ack" member false or missing
ClearAck ==
  /\ aPc = "waiting" /\ respWire.kind = "sealed" /\ respAck
  /\ respAck' = FALSE
  /\ UNCHANGED <<aPc, aSendSeq, aRecvSeq, aRatchet, aPending, aKeys, aWin,
                 aDone, bAlive, bSendSeq, bRecvSeq, bRatchet, bKeys, bWin,
                 bMsgCount, bLast, reqWire, reqSent, respWire, respSent,
                 kxLost, rpcVars, lifeVars, nxVars, wkVars, argVars, clsVars>>

\* Alice ratchets whenever a ratchet is pending, acknowledged or not
ShouldRatchetAlways(ack, pendingRatchet) == pendingRatchet

\* msgResp.Ack && pendingRatchet
ShouldRatchet(ack, pendingRatchet) == ack /\ pendingRatchet

\* Alice's decryption of a response: AAD of recvSeq + 1, current key or window
AliceOpens(msg) == OpensWithAny(aKeys.ba, aWin.ba, msg, aRecvSeq + 1)

\* Alice reads the answer to her post
AliceReceive ==
  /\ aPc = "waiting" /\ respWire # NoMsg
  /\ respWire' = NoMsg
  /\ IF AliceOpens(respWire) /\ SeqFresh(respWire.seq, aRecvSeq)
       THEN /\ aRecvSeq' = respWire.seq
            /\ aDone' = aDone + 1
            /\ aPc' = "idle"
            /\ IF ShouldRatchet(respAck, aPending)
                 THEN /\ aRatchet' = aRatchet + 1
                      /\ aWin' = [ab |-> WindowAdd(aWin.ab, aKeys.ab),
                                  ba |-> WindowAdd(aWin.ba, aKeys.ba)]
                      /\ aKeys' = [ab |-> RatchetKey(aKeys.ab, aRatchet + 1),
                                   ba |-> RatchetKey(aKeys.ba, aRatchet + 1)]
                      /\ aPending' = FALSE
                 ELSE UNCHANGED <<aRatchet, aWin, aKeys, aPending>>
       ELSE /\ aPc' = "fatal"
            /\ UNCHANGED <<aRecvSeq, aDone, aRatchet, aWin, aKeys, aPending>>
  /\ UNCHANGED <<aSendSeq, bAlive, bSendSeq, bRecvSeq, bRatchet, bKeys, bWin,
                 bMsgCount, bLast, reqWire, reqSent, respSent, respAck,
                 kxLost, rpcVars, lifeVars, nxVars, wkVars, argVars, clsVars>>

\* ======================================= classification of inbound objects
\* A decoded object is described by the fields the two classifiers look at:
\* whether "method" is there and is a string, whether "id" is there (null
\* included), the "jsonrpc" member, and which of result/error it carries.
InboundObjects ==
  [method : {"absent", "string", "number"},
   id : {"absent", "null", "number"},
   jsonrpc : {"2.0", "absent"},
   payload : {"none", "result", "error"}]

ClsInit ==
  /\ inObj = [method |-> "absent", id |-> "number", jsonrpc |-> "2.0",
              payload |-> "result"]
  /\ goClass = "none" /\ tsClass = "none"

\* handleIncoming: msg["method"].(string) succeeds, then msg["id"] decides;
\* everything else is unmarshalled as a Response
GoClassify(obj) ==
  IF obj.method = "string"
    THEN IF obj.id = "absent" THEN "Notification" ELSE "Request"
    ELSE "Response"

\* processMessage: a Response is jsonrpc "2.0" with an id and no method;
\* everything else is handed to bobServer.handleRequest
TsClassify(obj) ==
  IF obj.jsonrpc = "2.0" /\ obj.id # "absent" /\ obj.method = "absent"
    THEN "Response"
    ELSE "ToServer"

\* the controller's read loop classifies the object
HandleIncoming ==
  /\ goClass = "none"
  /\ goClass' = GoClassify(inObj)
  /\ UNCHANGED <<inObj, tsClass, rpcVars, lifeVars, nxVars, wkVars, argVars, kxVars>>

\* the worker's message processor classifies the object
ProcessMessage ==
  /\ tsClass = "none"
  /\ tsClass' = TsClassify(inObj)
  /\ UNCHANGED <<inObj, goClass, rpcVars, lifeVars, nxVars, wkVars, argVars, kxVars>>

\* ======================================= the lookup of the config file
\* A directory is its depth below the filesystem root (0 is the root); there
\* is one script per directory, so a script path is the depth of the
\* directory it lies in.  Starts of several bridge instances run
\* locateDenoConfigFile concurrently and share the map cachedConfigLookups.

\* the depth of the deepest directory
MaxDepth == 2

Dirs == 0..MaxDepth
ScriptPaths == Dirs
ConfigNames == {"deno.json", "deno.jsonc"}
\* the Start calls that run the lookup
Starters == {"s1", "s2"}

\* the empty string locateDenoConfigFile returns when it finds nothing
NotFound == [dir |-> 0, name |-> ""]
\* the map has no entry for the key
Absent == [dir |-> 0, name |-> "absent"]
\* no call for the path has returned yet
Unseen == [dir |-> 0, name |-> "unseen"]
\* filepath.Join(currentDir, name)
Found(d, n) == [dir |-> d, name |-> n]

\* filepath.Dir(scriptPath)
ScriptDir(scriptPath) == scriptPath
\* filepath.Dir of a directory: its parent; the root is its own parent
Dir(d) == IF d = 0 THEN 0 ELSE d - 1
\* parentDir == string(filepath.Separator): "/" is the Unix root, while the
\* root of a Windows volume is "C:\", which is not the separator "\"
IsSeparator(os, d) == os = "unix" /\ d = 0
\* parentDir == volumeName: "" on Unix and "C:" on Windows, which
\* filepath.Dir never returns for the directory of an absolute path
IsVolumeName(os, d) == FALSE
\* os.Stat(path) returns no error
Exists(fs, d, n) == <<d, n>> \in fs

\* the loop of locateDenoConfigFile from currentDir on
RECURSIVE Walk(_, _, _)
Walk(os, fs, currentDir) ==
  IF Exists(fs, currentDir, "deno.json") THEN Found(currentDir, "deno.json")
  ELSE IF Exists(fs, currentDir, "deno.jsonc") THEN Found(currentDir, "deno.jsonc")
  ELSE LET parentDir == Dir(currentDir) IN
       IF \/ parentDir = currentDir
          \/ IsVolumeName(os, parentDir)
          \/ IsSeparator(os, parentDir)
         THEN NotFound
         ELSE Walk(os, fs, parentDir)

U_lk == <<rpcVars, lifeVars, wkVars, argVars, kxVars, clsVars, rdVars, stVars>>

LkInit ==
  /\ lkOs = "unix" /\ lkFs = {}
  /\ lkCache = [p \in ScriptPaths |-> Absent]
  /\ lkPc = [g \in Starters |-> "idle"]
  /\ lkPath = [g \in Starters |-> 0]
  /\ lkResult = [g \in Starters |-> NotFound]
  /\ lkStat = [g \in Starters |-> FALSE]
  /\ lkAfter = [g \in Starters |-> FALSE]
  /\ lkFirst = [p \in ScriptPaths |-> Unseen]
  /\ lkRace = FALSE /\ lkFatal = FALSE


\* the call of g returns r for the path p
Returned(p, r) == IF lkFirst[p] = Unseen THEN [lkFirst EXCEPT ![p] = r] ELSE lkFirst

\* the other Starts that are inside an assignment to the map
MapWriters(g) == {h \in Starters \ {g} : lkPc[h] = "storing"}

\* Start calls locateDenoConfigFile(c.scriptPath)
LkBegin(g, p) ==
  /\ ~lkFatal /\ lkPc[g] = "idle"
  /\ lkPc' = [lkPc EXCEPT ![g] = "check"]
  /\ lkPath' = [lkPath EXCEPT ![g] = p]
  /\ lkAfter' = [lkAfter EXCEPT ![g] = lkFirst[p] # Unseen]
  /\ UNCHANGED <<lkOs, lkFs, lkCache, lkResult, lkStat, lkFirst, lkRace,
                 lkFatal, U_lk>>

\* cached, ok := cachedConfigLookups[scriptPath]: a read that overlaps an
\* assignment by another Start is a data race; it sees the entry of before
\* or the entry being written, or the runtime stops the process
LkCheck(g) ==
  /\ ~lkFatal /\ lkPc[g] = "check"
  /\ LET p == lkPath[g]
         sees == {lkCache[p]} \cup
                 {lkResult[h] : h \in {w \in MapWriters(g) : lkPath[w] = p}}
     IN \/ /\ \E cached \in sees :
                IF cached # Absent
                  THEN /\ lkResult' = [lkResult EXCEPT ![g] = cached]
                       /\ lkPc' = [lkPc EXCEPT ![g] = "done"]
                       /\ lkFirst' = Returned(p, cached)
                  ELSE /\ lkPc' = [lkPc EXCEPT ![g] = "walk"]
                       /\ UNCHANGED <<lkResult, lkFirst>>
           /\ lkRace' = (lkRace \/ MapWriters(g) # {})
           /\ UNCHANGED lkFatal
        \/ /\ MapWriters(g) # {}
           /\ lkFatal' = TRUE /\ lkRace' = TRUE
           /\ UNCHANGED <<lkResult, lkPc, lkFirst>>
  /\ UNCHANGED <<lkOs, lkFs, lkCache, lkPath, lkStat, lkAfter, U_lk>>

\* the walk up the directories; nothing found returns "" and stores nothing
LkWalk(g) ==
  /\ ~lkFatal /\ lkPc[g] = "walk"
  /\ LET r == Walk(lkOs, lkFs, ScriptDir(lkPath[g]))
     IN /\ lkResult' = [lkResult EXCEPT ![g] = r]
        /\ lkStat' = [lkStat EXCEPT ![g] = TRUE]
        /\ IF r # NotFound
             THEN lkPc' = [lkPc EXCEPT ![g] = "store"] /\ UNCHANGED lkFirst
             ELSE /\ lkPc' = [lkPc EXCEPT ![g] = "done"]
                  /\ lkFirst' = Returned(lkPath[g], r)
  /\ UNCHANGED <<lkOs, lkFs, lkCache, lkPath, lkAfter, lkRace, lkFatal, U_lk>>

\* cachedConfigLookups[scriptPath] = path begins: an assignment that
\* overlaps another one is a data race, on which the runtime may stop the
\* process ("concurrent map writes")
LkStoreBegin(g) ==
  /\ ~lkFatal /\ lkPc[g] = "store"
  /\ \/ /\ lkPc' = [lkPc EXCEPT ![g] = "storing"]
        /\ lkRace' = (lkRace \/ MapWriters(g) # {})
        /\ UNCHANGED lkFatal
     \/ /\ MapWriters(g) # {}
        /\ lkFatal' = TRUE /\ lkRace' = TRUE
        /\ UNCHANGED lkPc
  /\ UNCHANGED <<lkOs, lkFs, lkCache, lkPath, lkResult, lkStat, lkAfter,
                 lkFirst, U_lk>>

\* the assignment ends and the call returns the path; an assignment that
\* overlapped another one may have been lost
LkStoreEnd(g) ==
  /\ ~lkFatal /\ lkPc[g] = "storing"
  /\ \/ lkCache' = [lkCache EXCEPT ![lkPath[g]] = lkResult[g]]
     \/ MapWriters(g) # {} /\ UNCHANGED lkCache
  /\ lkPc' = [lkPc EXCEPT ![g] = "done"]
  /\ lkFirst' = Returned(lkPath[g], lkResult[g])
  /\ UNCHANGED <<lkOs, lkFs, lkPath, lkResult, lkStat, lkAfter, lkRace,
                 lkFatal, U_lk>>

\* ============================== the worker's reader of its standard input
\* The controller writes UTF-8 text, one message per line.  A byte is an
\* ASCII letter "a", a space " ", the newline "\n", or the lead byte "L" or
\* the continuation byte "T" of a two-byte character; the stream reaches the
\* reader cut into chunks at arbitrary byte positions.

\* the most bytes the controller writes
MaxBytes == 4

Bytes == {"a", " ", "\n", "L", "T"}
\* the two-byte character and U+FFFD, the replacement character
TwoByteChar == "c2"
Replacement == "fffd"

\* well-formed UTF-8: each lead byte is followed by its continuation byte,
\* and no continuation byte stands alone
WellFormed(bytes) ==
  \A i \in 1..Len(bytes) :
    /\ bytes[i] = "L" => (i < Len(bytes) /\ bytes[i + 1] = "T")
    /\ bytes[i] = "T" => (i > 1 /\ bytes[i - 1] = "L")

ByteStreams ==
  {b \in UNION {[1..n -> Bytes] : n \in 0..MaxBytes} : WellFormed(b)}

\* decoder.decode(chunk), not streaming: a sequence cut off by the end of
\* the chunk and a continuation byte without its lead byte each decode to
\* the replacement character
RECURSIVE DecodeFrom(_, _)
DecodeFrom(bytes, i) ==
  IF i > Len(bytes) THEN <<>>
  ELSE IF bytes[i] = "L"
    THEN IF i < Len(bytes) /\ bytes[i + 1] = "T"
           THEN <<TwoByteChar>> \o DecodeFrom(bytes, i + 2)
           ELSE <<Replacement>> \o DecodeFrom(bytes, i + 1)
  ELSE IF bytes[i] = "T" THEN <<Replacement>> \o DecodeFrom(bytes, i + 1)
  ELSE <<bytes[i]>> \o DecodeFrom(bytes, i + 1)

Decode(chunk) == DecodeFrom(chunk, 1)

\* buffer.join("")
RECURSIVE Join(_)
Join(strings) ==
  IF strings = <<>> THEN <<>> ELSE Head(strings) \o Join(Tail(strings))

\* text.split("\n"): the pieces between the newlines, always at least one
RECURSIVE SplitLines(_, _, _)
SplitLines(text, i, piece) ==
  IF i > Len(text) THEN <<piece>>
  ELSE IF text[i] = "\n" THEN <<piece>> \o SplitLines(text, i + 1, <<>>)
  ELSE SplitLines(text, i + 1, Append(piece, text[i]))

Split(text) == SplitLines(text, 1, <<>>)

\* joined.endsWith("\n")
EndsWithNewline(text) == Len(text) > 0 /\ text[Len(text)] = "\n"

\* line.trim() === ""
IsBlank(ln) == \A i \in 1..Len(ln) : ln[i] = " "

\* the lines processMessage does not return on at once
NonBlank(lns) == SelectSeq(lns, LAMBDA ln : ~IsBlank(ln))

RdInit == rdStream = <<>> /\ rdPos = 0 /\ rdBuffer = <<>> /\ rdHanded = <<>>

U_rd == <<rpcVars, lifeVars, wkVars, argVars, kxVars, clsVars, lkVars, stVars>>

\* one turn of the loop over Deno.stdin.readable, on a chunk of n bytes
ReadChunk(n) ==
  /\ rdPos + n <= Len(rdStream)
  /\ LET chunk == SubSeq(rdStream, rdPos + 1, rdPos + n)
         text == Decode(chunk)
         joined == Join(Append(rdBuffer, text))
         lines == Split(joined)
         keep == ~EndsWithNewline(joined)
         complete == IF keep THEN SubSeq(lines, 1, Len(lines) - 1) ELSE lines
     IN /\ rdBuffer' = IF keep THEN <<lines[Len(lines)]>> ELSE <<>>
        /\ rdHanded' = rdHanded \o NonBlank(complete)
  /\ rdPos' = rdPos + n
  /\ UNCHANGED <<rdStream, U_rd>>

\* ================================ one Call and the worker's output stream
\* The controller makes one Call (an invoke); the worker, while it serves
\* it, writes lines to its stdout - Notifications (invokeProgress), Requests
\* of its own, lines that are not JSON - and then the Response.  The read
\* loop scans the lines in the order they were written.

\* the most lines the worker writes before its Response
MaxLines == 3

MethodKinds == {"notification", "request"}
WorkerLineKinds == MethodKinds \cup {"badjson"}

\* no handler runs inside the read loop: each gets a goroutine of its own
HandledInlineNever(kind) == FALSE

\* a Notification's handler is called by the read loop itself (line 548); a
\* Request's handler runs in a goroutine of its own (line 552)
HandledInline(kind) == kind = "notification"

\* what running the handler of a line of this kind does: c.notifyFunc is
\* called; or c.requestFunc is called and its Response written to the worker
NotifiedAfter(kind) == IF kind = "notification" THEN stNotified + 1 ELSE stNotified
WrittenAfter(kind) == IF kind = "request" THEN Append(stIn, "response") ELSE stIn

StInit ==
  /\ stOut = <<>> /\ stRead = 0 /\ stReaderPc = "scan"
  /\ stCall = "idle" /\ stPending = FALSE /\ stChan = 0
  /\ stWorker = "idle" /\ stNotified = 0
  /\ stG = [k \in MethodKinds |-> 0]
  /\ stIn = <<>> /\ stBadRead = 0

NxInit == LkInit /\ RdInit /\ StInit

U_st == <<rpcVars, lifeVars, wkVars, argVars, kxVars, clsVars, lkVars, rdVars>>

\* Call registers its channel and writes the Request
StCallStart ==
  /\ stCall = "idle"
  /\ stCall' = "waiting" /\ stPending' = TRUE
  /\ stIn' = Append(stIn, "request")
  /\ UNCHANGED <<stOut, stRead, stReaderPc, stChan, stWorker, stNotified,
                 stG, stBadRead, U_st>>

\* the worker takes the Request up
StWorkerRecv ==
  /\ stWorker = "idle" /\ stCall # "idle"
  /\ stWorker' = "invoking"
  /\ UNCHANGED <<stOut, stRead, stReaderPc, stCall, stPending, stChan,
                 stNotified, stG, stIn, stBadRead, U_st>>

\* the worker writes a line before its Response
StWorkerWrite(kind) ==
  /\ stWorker = "invoking" /\ Len(stOut) < MaxLines
  /\ stOut' = Append(stOut, kind)
  /\ UNCHANGED <<stRead, stReaderPc, stCall, stPending, stChan, stWorker,
                 stNotified, stG, stIn, stBadRead, U_st>>

\* the worker writes the Response
StWorkerRespond ==
  /\ stWorker = "invoking"
  /\ stWorker' = "answered"
  /\ stOut' = Append(stOut, "response")
  /\ UNCHANGED <<stRead, stReaderPc, stCall, stPending, stChan, stNotified,
                 stG, stIn, stBadRead, U_st>>

\* the line scanner.Scan() delivers next
NextLine == stOut[stRead + 1]
CanScan == stReaderPc = "scan" /\ stRead < Len(stOut)

\* json.Unmarshal fails: the error is logged and the loop continues; nothing
\* is written to the worker
StReadBadJson ==
  /\ CanScan /\ NextLine = "badjson"
  /\ stRead' = stRead + 1
  /\ stBadRead' = stBadRead + 1
  /\ UNCHANGED <<stOut, stReaderPc, stCall, stPending, stChan, stWorker,
                 stNotified, stG, stIn, U_st>>

\* a line with a method: a Notification or a Request of the worker
StReadMethod(kind) ==
  /\ CanScan /\ NextLine = kind
  /\ stRead' = stRead + 1
  /\ IF HandledInline(kind)
       THEN /\ stNotified' = NotifiedAfter(kind)
            /\ stIn' = WrittenAfter(kind)
            /\ stReaderPc' = "notify"
            /\ UNCHANGED stG
       ELSE /\ stG' = [stG EXCEPT ![kind] = @ + 1]
            /\ UNCHANGED <<stNotified, stIn, stReaderPc>>
  /\ UNCHANGED <<stOut, stCall, stPending, stChan, stWorker, stBadRead, U_st>>

\* the handler called by the read loop returns to it
StNotifyReturn ==
  /\ stReaderPc = "notify"
  /\ stReaderPc' = "scan"
  /\ UNCHANGED <<stOut, stRead, stCall, stPending, stChan, stWorker,
                 stNotified, stG, stIn, stBadRead, U_st>>

\* a handler goroutine runs
StHandlerRun(kind) ==
  /\ stG[kind] > 0
  /\ stG' = [stG EXCEPT ![kind] = @ - 1]
  /\ stNotified' = NotifiedAfter(kind)
  /\ stIn' = WrittenAfter(kind)
  /\ UNCHANGED <<stOut, stRead, stReaderPc, stCall, stPending, stChan,
                 stWorker, stBadRead, U_st>>

\* the Response: sent to the Call's channel if its id is still pending
StReadResponse ==
  /\ CanScan /\ NextLine = "response"
  /\ stRead' = stRead + 1
  /\ stChan' = IF stPending THEN stChan + 1 ELSE stChan
  /\ UNCHANGED <<stOut, stReaderPc, stCall, stPending, stWorker, stNotified,
                 stG, stIn, stBadRead, U_st>>

\* the Call takes the Response from its channel and returns the result
StCallRecv ==
  /\ stCall = "waiting" /\ stChan > 0
  /\ stChan' = stChan - 1 /\ stPending' = FALSE
  /\ stCall' = "returned"
  /\ UNCHANGED <<stOut, stRead, stReaderPc, stWorker, stNotified, stG, stIn,
                 stBadRead, U_st>>

\* the Call's context ends first: it returns ctx.Err()
StCallCtxDone ==
  /\ stCall = "waiting"
  /\ stPending' = FALSE
  /\ stCall' = "cancelled"
  /\ UNCHANGED <<stOut, stRead, stReaderPc, stChan, stWorker, stNotified,
                 stG, stIn, stBadRead, U_st>>

\* ========================================================= specifications
Init == RpcInit /\ LifeInit /\ WkInit /\ ArgInit /\ KxInit /\ ClsInit /\ NxInit

\* the RPC engine is the same under both bindings' DenoClient: one is fixed
RpcOnlyInit == Init /\ binding = "stdio" /\ optDefined = {}

\* the RPC engine
Next ==
  \/ \E c \in Callers, m \in BOOLEAN : CallAlloc(c, m)
  \/ \E c \in Callers, w \in BOOLEAN : CallWriteEnd(c, w)
  \/ \E c \in Callers : CallRecv(c)
  \/ \E c \in Callers : CallFinish(c)
  \/ \E c \in Callers : CallCtxDone(c)
  \/ \E c \in Callers : CallCancelReturn(c)
  \/ ReadBlank
  \/ ReadBadJson
  \/ ReadNotification
  \/ NotifyReturn
  \/ \E i \in WorkerReqIds, m \in Methods : ReadRequest(i, m)
  \/ ReadBadShape
  \/ ReadRespNoId
  \/ \E i \in Ids, e \in BOOLEAN : ReadResponse(i, e)
  \/ ReaderSend
  \/ ReadEOF
  \/ \E g \in ReqSlots : ReqHandlerReturn(g)
  \/ \E g \in ReqSlots, w \in BOOLEAN : ReqWriteEnd(g, w)

Spec == RpcOnlyInit /\ [][Next]_vars

\* the lifecycle of one DenoClient
LifeNext ==
  \/ \E code \in {"exited0", "exited1"} : WorkerExit(code)
  \/ \E a \in {"true", "false", "rpcerr"} : WorkerAnswerHealth(a)
  \/ \E k \in {"valid", "garbage", "noPort", "noCert", "badPem"} : WorkerWriteHandshake(k)
  \/ \E st \in {"200", "204", "500"} : WorkerServeHealth(st)
  \/ LcCancelCtx
  \/ CtxKill
  \/ \E stage \in {"resolve", "spawn"} : StartFail(stage)
  \/ StartStdio
  \/ StartHealthReturn
  \/ StopStdio
  \/ StopWaitReturn
  \/ \E op \in OptionalOps : OptCall(op)
  \/ WorkerAnswerOpt
  \/ OptReturn
  \/ \E w \in BOOLEAN : StartSecure(w)
  \/ HandshakeLine
  \/ HandshakeExited
  \/ HandshakeTimeout
  \/ ReadyPoll
  \/ ReadyExited
  \/ ReadyTimeout
  \/ StopSecure

LifeSpec == Init /\ [][LifeNext]_vars

\* the steps the Go scheduler and the timers guarantee to take; the worker
\* and the caller's context are under no obligation
LifeFairness ==
  /\ WF_vars(CtxKill)
  /\ WF_vars(StartHealthReturn)
  /\ WF_vars(StopWaitReturn)
  /\ WF_vars(HandshakeLine)
  /\ WF_vars(HandshakeExited)
  /\ WF_vars(HandshakeTimeout)
  /\ WF_vars(ReadyExited)
  /\ WF_vars(ReadyTimeout)

FairLifeSpec == LifeSpec /\ LifeFairness

\* the handshake worker, for every way the pipe can split the message
WorkerInit ==
  /\ RpcInit /\ LifeInit /\ binding = "secure" /\ ArgInit /\ KxInit /\ ClsInit
  /\ NxInit
  /\ wkKind \in WorkerKinds /\ wkChunks \in 1..MaxChunks
  /\ wkPc = "reading" /\ wkGot = 0 /\ wkInput = 0 /\ wkExpected = NoHeader
  /\ wkPort = 0 /\ portOwner = "free" /\ wkStdout = <<>> /\ wkResponses = {}

WorkerNext ==
  \/ ReadClientCertChunk
  \/ ReadClientCertEnd
  \/ ReadStdin
  \/ ListenProbe
  \/ CloseProbe
  \/ WriteServerHandshake
  \/ OtherBinds
  \/ ServeTLSBind
  \/ HeaderBind
  \/ OnListen
  \/ \E cl \in Clients, h \in Headers : PostMessage(cl, h)
  \/ \E cl \in Clients, w \in BOOLEAN : ServeTLSRequest(cl, w)

WorkerSpec == WorkerInit /\ [][WorkerNext]_vars

\* Start's argument vector, for every permission specification
ArgsInit ==
  /\ RpcInit /\ LifeInit /\ binding = "stdio" /\ optDefined = {} /\ WkInit
  /\ KxInit /\ ClsInit /\ NxInit
  /\ permissions \in PermissionSpecs /\ argBinding = "none" /\ args = <<>>

ArgsNext == \E b \in {"stdio", "secure"} : BuildArgs(b)

ArgsSpec == ArgsInit /\ [][ArgsNext]_vars

\* the key-exchange session over a network that loses, alters and replays
KxNext ==
  \/ AliceSend
  \/ \E p \in SeqPrefixes : DeliverRequest(p)
  \/ \E m \in reqSent : ReplayRequest(m)
  \/ LoseRequest
  \/ LoseResponse
  \/ \E m \in respSent : ReplayResponse(m)
  \/ ClearAck
  \/ AliceReceive

KxSpec == RpcOnlyInit /\ [][KxNext]_vars

\* both classifiers on every shape of decoded object
ClassifyInit ==
  /\ RpcInit /\ LifeInit /\ binding = "stdio" /\ optDefined = {} /\ WkInit
  /\ ArgInit /\ KxInit /\ NxInit
  /\ inObj \in InboundObjects /\ goClass = "none" /\ tsClass = "none"

ClassifyNext == HandleIncoming \/ ProcessMessage

ClassifySpec == ClassifyInit /\ [][ClassifyNext]_vars

\* the lookups of two Starts on every layout of config files
LookupInit ==
  /\ RpcInit /\ LifeInit /\ binding = "stdio" /\ optDefined = {} /\ WkInit
  /\ ArgInit /\ KxInit /\ ClsInit /\ RdInit /\ StInit
  /\ lkOs \in {"unix", "windows"}
  /\ lkFs \in SUBSET (Dirs \X ConfigNames)
  /\ lkCache = [p \in ScriptPaths |-> Absent]
  /\ lkPc = [g \in Starters |-> "idle"]
  /\ lkPath = [g \in Starters |-> 0]
  /\ lkResult = [g \in Starters |-> NotFound]
  /\ lkStat = [g \in Starters |-> FALSE]
  /\ lkAfter = [g \in Starters |-> FALSE]
  /\ lkFirst = [p \in ScriptPaths |-> Unseen]
  /\ lkRace = FALSE /\ lkFatal = FALSE

LookupNext ==
  \/ \E g \in Starters, p \in ScriptPaths : LkBegin(g, p)
  \/ \E g \in Starters : LkCheck(g)
  \/ \E g \in Starters : LkWalk(g)
  \/ \E g \in Starters : LkStoreBegin(g)
  \/ \E g \in Starters : LkStoreEnd(g)

LookupSpec == LookupInit /\ [][LookupNext]_vars

\* the worker reads every well-formed stream under every chunking
StdinInit ==
  /\ RpcInit /\ LifeInit /\ binding = "stdio" /\ optDefined = {} /\ WkInit
  /\ ArgInit /\ KxInit /\ ClsInit /\ LkInit /\ StInit
  /\ rdStream \in ByteStreams
  /\ rdPos = 0 /\ rdBuffer = <<>> /\ rdHanded = <<>>

StdinNext == \E n \in 1..MaxBytes : ReadChunk(n)

StdinSpec == StdinInit /\ [][StdinNext]_vars

\* one Call against a worker that writes what it likes before its Response
StreamNext ==
  \/ StCallStart
  \/ StWorkerRecv
  \/ \E k \in WorkerLineKinds : StWorkerWrite(k)
  \/ StWorkerRespond
  \/ StReadBadJson
  \/ \E k \in MethodKinds : StReadMethod(k)
  \/ StNotifyReturn
  \/ \E k \in MethodKinds : StHandlerRun(k)
  \/ StReadResponse
  \/ StCallRecv
  \/ StCallCtxDone

StreamSpec == RpcOnlyInit /\ [][StreamNext]_vars

\* ================================================================== claims

\* C1: each Call returns only the Response whose id is the id it allocated:
\* the channel registered for an id only ever holds Responses with that id,
\* the Response a Call took from its channel and the result it returned carry
\* the Call's own id, and a Call that has received a Response never receives
\* another one.
C1_OwnResponse ==
  /\ [](/\ \A i \in Ids : \A k \in 1..Len(chan[i]) : chan[i][k].id = i
        /\ \A c \in Callers :
             /\ callResp[c] # NoResp => callResp[c].id = callId[c]
             /\ callResult[c].kind \in {"result", "rpcError"}
                  => callResult[c].id = callId[c])
  /\ [][\A c \in Callers : callResp[c] # NoResp => callResp'[c] = callResp[c]]_vars

\* C1 witness: the worker answered out of order: the Call that allocated id 2
\* has returned its own Response while the Call with id 1 is still waiting
\* and the read loop is busy with a Notification.
C1_OutOfOrder ==
  /\ callResult[2].kind = "result" /\ callResult[2].id = 2
  /\ callPc[1] = "waiting" /\ callId[1] = 1
  /\ readerPc = "notify"

\* C2: a Call that returned the cancellation error has no pending entry left;
\* from then on nothing is sent to the channel it had registered, no other
\* Call holds a Response with its id, and the read loop that drops the late
\* Response keeps scanning (no panic, lock released).
C2_CancelledCall ==
  /\ [](\A c \in Callers :
          callResult[c].kind = "ctxErr" =>
            /\ callId[c] \notin pending
            /\ \A d \in Callers : d # c => callResp[d].id # callId[c])
  /\ [][/\ \A c \in Callers : callResult[c].kind = "ctxErr"
                                => chan'[callId[c]] = chan[callId[c]]
        /\ orphans' # orphans => readerPc' = "scan" /\ mu' = "free"]_vars

\* C2 witness: a Response for the id of a Call that had already returned
\* ctx.Err() was read and dropped.
C2_LateResponseDropped ==
  \E c \in Callers : callResult[c].kind = "ctxErr" /\ callId[c] \in orphans

\* goroutines that are inside c.stdin.Write
Writers ==
  {<<"call", c>> : c \in {x \in Callers : callPc[x] = "writing"}}
  \cup {<<"request", g>> : g \in {x \in ReqSlots : reqG[x].pc = "writing"}}

\* C3: frames are written under one writer mutex, so at no time are two
\* goroutines writing a frame to the worker's stdin.
C3_SerializedWrites ==
  /\ Cardinality(Writers) <= 1
  /\ Writers # {} => mu # "free"

\* C4: once the read loop has terminated on EOF, every Call that is waiting
\* has been handed something to return (its Response or the connection-closed
\* error): none is left blocked on an empty channel.
C4_EofFailsPending ==
  readerPc = "done" =>
    \A c \in Callers : callPc[c] = "waiting" => chan[callId[c]] # <<>>

\* C5: no inbound line crashes the read loop.
C5_ReadLoopSurvives == readerPc # "panicked"

\* C6: the read loop never runs a Notification's handler itself.
C6_HandlerOffReadLoop == readerPc # "notify"

\* C7: Start returns nil only when the worker has positively answered the
\* health probe: ok=true on the stdio binding; a valid handshake line, its
\* certificate installed, and 200 or 204 on GET /health on the secure binding.
C7_NoFalseHealthy ==
  startResult = "nil" =>
    /\ process > 0
    /\ binding = "stdio" => healthAns = "true"
    /\ binding = "secure" => /\ hsLine = "valid"
                             /\ tlsRoots = {ServerCert(process)}
                             /\ healthAns \in {"200", "204"}

\* C7 witness: the stdio worker answered ok=true and Start returned nil.
C7_Healthy ==
  binding = "stdio" /\ startResult = "nil" /\ healthAns = "true" /\ lcPc = "idle"

\* C8: a Start that is waiting for the worker always returns (the bounded
\* timeout ends the wait), and a Start that timed out has killed the worker.
C8_StartBounded ==
  /\ (lcPc \in {"health", "handshake", "ready"}) ~> (lcPc = "idle")
  /\ [](startResult = "timeout" => ~CurRunning)

\* C9: a Stop on a healthy bridge that waits for the worker to exit always
\* returns (the bounded timeout ends the wait with a kill).
C9_StopBounded == (lcPc = "stopWait" /\ startResult = "nil") ~> (lcPc = "idle")

\* C10: at most one worker process is ever created per DenoClient.
C10_OneWorker == Len(procs) <= 1

\* the dispatch goroutines that have built their Response
Answered == {g \in ReqSlots : reqG[g].pc \in {"writing", "done"}}

\* C11: a Request whose method has no registered handler (the method is not
\* one handleRequest serves, or no request function is installed) is answered
\* with code -32601.
C11_MethodNotFound ==
  \A g \in Answered :
    (~requestFunc \/ reqG[g].method \notin KnownMethods) => reqG[g].code = -32601

\* the Response frame a dispatch goroutine writes
ResponseFrame(g) == [kind |-> "response", id |-> reqG[g].id, code |-> reqG[g].code]

\* C12: the Response built for a Request is a result when its handler
\* succeeded and an error with code -32603 when it failed; the goroutine
\* writes that one frame, with the Request's id, and nothing else; there are
\* never more Response frames on the wire than answered Requests; and the
\* step in which a handler returns leaves the read loop and every Call as
\* they were.
C12_RequestAnswered ==
  /\ [](\A g \in Answered :
          reqG[g].code = IF HandleRequest(reqG[g].method) THEN 0 ELSE -32603)
  /\ [](\A f \in BagToSet(stdin) :
          f.kind = "response" =>
            CopiesIn(f, stdin) <=
              Cardinality({g \in ReqSlots : reqG[g].pc = "done" /\ ResponseFrame(g) = f}))
  /\ [][\A g \in ReqSlots :
          reqG[g].pc = "writing" /\ reqG'[g].pc = "done"
            => stdin' \in {stdin, Written(ResponseFrame(g))}]_vars
  /\ [][(\E g \in ReqSlots : reqG[g].pc = "run" /\ reqG'[g].pc = "writing")
          => UNCHANGED <<readerPc, mu, pending, chan, callPc, callResp,
                         callResult>>]_vars

\* C12 witness: a Request for a method handleRequest does not serve was
\* answered with the -32603 frame, the read loop is still scanning and a Call
\* issued meanwhile has returned its result.
C12_HandlerFailed ==
  /\ \E g \in ReqSlots :
       /\ reqG[g].pc = "done" /\ reqG[g].method = "noSuchMethod"
       /\ reqG[g].code = -32603
       /\ BagIn(ResponseFrame(g), stdin)
  /\ readerPc = "scan"
  /\ \E c \in Callers : callResult[c].kind = "result"

\* C13: a Call returns a typed RPC error exactly when the Response it took
\* from its own channel is error-shaped, and that Response carries the id the
\* Call allocated; the step in which it returns the error leaves every other
\* Call, its pending entry and its channel, and the read loop, as they were.
C13_ScopedRpcError ==
  /\ [](\A c \in Callers :
          /\ callPc[c] = "returned" /\ callResp[c] # NoResp =>
               callResult[c] = [kind |-> IF callResp[c].err THEN "rpcError"
                                                           ELSE "result",
                                id |-> callId[c]]
          /\ callResult[c].kind = "rpcError" =>
               callResp[c].err /\ callResp[c].id = callId[c])
  /\ [][\A c \in Callers :
          callResult[c].kind # "rpcError" /\ callResult'[c].kind = "rpcError" =>
            /\ readerPc' = readerPc
            /\ \A d \in Callers \ {c} :
                 /\ callPc'[d] = callPc[d] /\ callResult'[d] = callResult[d]
                 /\ callId[d] # 0 =>
                      /\ (callId[d] \in pending') = (callId[d] \in pending)
                      /\ chan'[callId[d]] = chan[callId[d]]]_vars

\* C13 witness: one Call returned the RPC error of its own Response and the
\* other Call, pending at that time, has its own result.
C13_ErrorThenResult ==
  /\ callResult[1].kind = "rpcError" /\ callResult[1].id = 1
  /\ callResult[2].kind = "result" /\ callResult[2].id = 2
  /\ readerPc = "scan"

\* C14: the shutdown message is sent as a Notification: sending it allocates
\* no correlation id (hence registers no pending entry) and waits for no
\* Response.
C14_ShutdownIsNotification ==
  \A c \in Callers :
    CallMethod(c) = "shutdown" => callId[c] = 0 /\ callPc[c] # "waiting"

\* C15: for the optional operations a method-not-found error Response is
\* "feature absent": Close returns nil and ModifyPlan returns (nil, nil);
\* every other RPC error and every transport error is returned as a failure;
\* and the worker answers method-not-found exactly when the script does not
\* define the method.
C15_OptionalAbsent ==
  /\ optResult.err = "rpc" /\ optResult.code = -32601 =>
       optResult.ret = IF optOp = "close" THEN "nil" ELSE "nilnil"
  /\ optResult.err = "transport" \/ (optResult.err = "rpc" /\ optResult.code # -32601)
       => optResult.ret = "error"
  /\ optAns # NoAns =>
       ((optAns.kind = "rpcError" /\ optAns.code = -32601) <=> optOp \notin optDefined)

\* C15 witness: Close on a bridge whose script defines no close method got
\* the -32601 Response and returned nil.
C15_CloseAbsent ==
  /\ optOp = "close" /\ "close" \notin optDefined
  /\ optAns = [kind |-> "rpcError", code |-> -32601]
  /\ optResult = [err |-> "rpc", code |-> -32601, ret |-> "nil"]
  /\ lcPc = "idle"

\* Stop has notified shutdown to a running worker and is waiting for it
ShutdownRequested ==
  lcPc = "stopWait" /\ hsLog # <<>> /\ hsLog[Len(hsLog)] = "notifyShutdown"

\* C16: when the worker exits with a non-zero status after Stop has requested
\* shutdown, Stop returns no error.
C16_ExpectedExit ==
  [][ShutdownRequested /\ process > 0 /\ procs[process] = "exited1" /\ lcPc' = "idle"
       => stopResult' = "nil"]_vars

\* everything Start does on the worker's stdio and HTTP port, in order
FullHandshake ==
  <<"writeCert", "closeStdin", "readLine", "installRoot", "getHealth">>

\* C17: in the secure binding Start writes {cert}, closes stdin, reads one
\* handshake line, installs the certificate and only then probes GET /health,
\* each once and in this order; a probe has been made only after the line
\* parsed and its certificate became the trust root.
C17_HandshakeOrder ==
  binding = "secure" =>
    /\ Len(hsLog) <= Len(FullHandshake)
    /\ hsLog = SubSeq(FullHandshake, 1, Len(hsLog))
    /\ (\E k \in 1..Len(hsLog) : hsLog[k] = "getHealth") =>
         /\ ParseHandshake(hsLine) = "ok"
         /\ tlsRoots = {ServerCert(process)}

\* C17 witness: a secure Start has gone through the whole sequence and
\* returned nil.
C17_HandshakeDone ==
  binding = "secure" /\ hsLog = FullHandshake /\ startResult = "nil"

C19_TrustFixed ==
  /\ [](binding = "secure" /\ (lcPc = "ready" \/ startResult = "nil")
          => tlsRoots = {ServerCert(process)})
  /\ [][binding = "secure" /\ startResult = "nil" => tlsRoots' = tlsRoots]_vars

\* first lines that are not a valid handshake
BadHandshake == {"garbage", "noPort", "noCert"}

\* C20: when the worker's first line is not valid handshake JSON, or lacks
\* the port or the cert, the handshake never succeeds (no trust root, no
\* readiness probe, no nil from Start); reading the line makes Start return
\* the handshake error at once; and Start does return.
C20_BadHandshakeFails ==
  /\ [](hsLine \in BadHandshake =>
          lcPc # "ready" /\ startResult # "nil" /\ tlsRoots = HostRoots)
  /\ [][(hsLine \in BadHandshake /\ hsLog' = Append(hsLog, "readLine"))
          => (lcPc' = "idle" /\ startResult' = "handshakeErr")]_vars
  /\ (lcPc = "handshake" /\ hsLine \in BadHandshake) ~> (lcPc = "idle")

\* C20 witness: the worker wrote a garbage line and Start returned the
\* handshake error, with the worker stopped.
C20_GarbageRejected ==
  /\ hsLine = "garbage" /\ startResult = "handshakeErr" /\ lcPc = "idle"
  /\ ~CurRunning

\* C21: the header variant's worker serves the protected message exactly to
\* the requests whose X-Client-Cert-Hash header is the hash of the
\* certificate the initiator sent on stdin; every other request, the header
\* missing or different, is answered 401 without the message.
C21_HeaderGate ==
  wkKind = "header" =>
    \A r \in wkResponses :
      /\ r.secret <=> r.header = Sha256Hex(ClientMsg.cert)
      /\ ~r.secret => r.status = 401

\* C21 witness: the worker has refused a request carrying another
\* certificate's hash and one without the header, and served the provider's.
C21_RefusedAndServed ==
  /\ wkKind = "header"
  /\ \E r \in wkResponses : r.header = Sha256Hex("otherCertPEM") /\ r.status = 401
  /\ \E r \in wkResponses : r.header = NoHeader /\ r.status = 401
  /\ \E r \in wkResponses : r.client = "provider" /\ r.secret

\* C22: under serveTLS a request reaches the application handler only when
\* its connection presented the client certificate passed on stdin.
C22_OnlyProvider ==
  wkKind = "serveTLS" =>
    \A r \in wkResponses : r.handled => r.presented = ClientMsg.cert

\* C23: the handshake line is on stdout only while the worker's HTTPS
\* listener holds the advertised port, and it is the first line of stdout.
C23_BoundBeforeHandshake ==
  wkStdout # <<>> =>
    /\ wkStdout[1].kind = "handshake"
    /\ wkStdout[1].port = wkPort
    /\ portOwner = "server"

\* C24: the text the worker hands to the JSON parser is the whole message,
\* in however many chunks it arrived.
C24_WholeStdin == wkInput # 0 => wkInput = wkChunks

\* the flags the claim describes for a permission specification
OneFlagPerEntry(perms) ==
  IF perms.All THEN <<AllowAll>>
  ELSE AllowFlags(perms.Allow) \o DenyFlags(perms.Deny)

\* C25: for a given permission specification the argument vector holds one
\* allow flag per allow entry followed by one deny flag per deny entry, in
\* list order, or --allow-all alone when all is set.
C25_FlagPerEntry ==
  (argBinding # "none" /\ ~permissions.Nil) =>
    args = OneFlagPerEntry(permissions)

\* C26: without a permission specification the argument vector holds no
\* capability flag.
C26_NoDefaultCapability ==
  (argBinding # "none" /\ permissions.Nil) =>
    \A i \in 1..Len(args) : args[i][1] # "--allow"

\* C27: on both sides the last accepted receive sequence number never
\* decreases, and a message is accepted only when its sequence number is
\* greater than the last accepted one.
C27_SeqOnlyGrows ==
  [][/\ bRecvSeq' >= bRecvSeq
     /\ aRecvSeq' >= aRecvSeq
     /\ (bMsgCount' # bMsgCount) => (bLast'.seq > bRecvSeq /\ bRecvSeq' = bLast'.seq)
     /\ (aDone' # aDone) => (respWire.seq > aRecvSeq /\ aRecvSeq' = respWire.seq)]_vars

\* C27 witness: after Bob had accepted two requests, one of them was posted
\* again and Bob refused it.
C27_ReplayRefused ==
  /\ bMsgCount >= 2 /\ aDone >= 1
  /\ bLast.replayed /\ bLast.outcome = "undecryptable" /\ bLast.seq <= bRecvSeq

\* each side accepts the next message the other side's code would send
KeysInSync ==
  /\ BobOpens(AliceNextRequest) /\ SeqFresh(AliceNextRequest.seq, bRecvSeq)
  /\ AliceOpens(BobNextResponse) /\ SeqFresh(BobNextResponse.seq, aRecvSeq)

\* C28: after a request or a response has been lost, Bob still opens
\* Alice's next request and Alice still opens Bob's next response, each
\* with its current key or a key of its window.
C28_SyncAfterLoss == (kxLost /\ bAlive) => KeysInSync

\* the Calls that have allocated their id
Allocated == {c \in Callers : callPc[c] # "idle"}
\* the Calls that have not returned yet
Outstanding == {c \in Allocated : callPc[c] # "returned"}

\* C29: the ids Call allocates grow in allocation order (the Calls are
\* numbered in the order in which they take c.mu), so no two Calls share an
\* id; every id in the pending map was handed to exactly one Call, and the
\* counter is beyond every id handed out, so none is handed out again.
C29_DistinctIds ==
  /\ \A c, d \in Allocated : c < d => callId[c] < callId[d]
  /\ \A c \in Allocated : callId[c] < nextID
  /\ \A i \in pending : Cardinality({c \in Allocated : callId[c] = i}) = 1

\* C29 witness: two Calls are outstanding at once, each registered in the
\* pending map under its own id.
C29_TwoOutstanding ==
  /\ Cardinality(Outstanding) >= 2
  /\ \A c \in Outstanding : callId[c] \in pending
  /\ Cardinality(pending) >= 2

\* the classification rule: method and id, then method alone, else Response
RuleClass(obj) ==
  IF obj.method # "absent" /\ obj.id # "absent" THEN "Request"
  ELSE IF obj.method # "absent" THEN "Notification"
  ELSE "Response"

\* C30: the controller's read loop takes every decoded object for what the
\* rule says, and the worker's message processor treats as a Response
\* exactly the objects the rule calls a Response, handing the Requests and
\* Notifications to its server.
C30_ClassifiedByRule ==
  /\ goClass # "none" => goClass = RuleClass(inObj)
  /\ tsClass # "none" => (tsClass = "Response" <=> RuleClass(inObj) = "Response")

\* C36: once a Call has returned, on whatever path, its id is no longer a
\* key of the pending map.
C36_PendingOnlyWhileWaiting ==
  \A c \in Callers : callPc[c] = "returned" => callId[c] \notin pending

\* C37: the read loop is never blocked for good inside the pending-map lock:
\* it never waits, holding c.mu, for room in the channel of a Call that has
\* taken its cancellation branch and is itself waiting for c.mu.
C37_NoDeadlockUnderLock ==
  ~(/\ readerPc = "send" /\ mu = "reader"
    /\ Len(chan[PendingKey(line.id)]) >= 1
    /\ \E c \in Callers : callId[c] = line.id /\ callPc[c] = "cancelled")

\* C38: when a worker process has been started, the stdio Stop returns only
\* out of its wait for the process or after having killed it.
C38_StopDisposes ==
  [][(binding = "stdio" /\ process > 0 /\ stopResult' # stopResult
        /\ stopResult' # "none")
       => (lcPc = "stopWait" \/ procs'[process] = "killed")]_vars

\* Alice's step ratchets exactly once, on an accepted answer with ack = true
AliceRatchetStep ==
  aRatchet' # aRatchet =>
    /\ aRatchet' = aRatchet + 1
    /\ aPc = "waiting" /\ respAck
    /\ AliceOpens(respWire) /\ SeqFresh(respWire.seq, aRecvSeq)
    /\ aDone' = aDone + 1

\* Bob's step ratchets exactly once, on a request he has processed
BobRatchetStep ==
  bRatchet' # bRatchet =>
    /\ bRatchet' = bRatchet + 1
    /\ bMsgCount' = bMsgCount + 1
    /\ bLast'.outcome = "accepted"

\* C35: Alice ratchets only on an accepted response with ack = true and at
\* most once per message she sent; Bob ratchets only on a request he has
\* processed; when Alice completes an acknowledged exchange, the two ratchet
\* counters are equal and both directional keys are the same on both sides.
C35_RatchetOnAck ==
  [][/\ AliceRatchetStep
     /\ BobRatchetStep
     /\ aRatchet' <= aSendSeq' - 1
     /\ (aDone' # aDone /\ respAck) =>
          (aRatchet' = bRatchet' /\ aKeys' = bKeys')]_vars

\* two acknowledged exchanges are complete and both sides ratcheted twice
C35_TwoExchangesRatcheted ==
  /\ aDone = 2 /\ aRatchet = 2 /\ bRatchet = 2 /\ aKeys = bKeys
  /\ aKeys.ab.chain = <<1, 2>> /\ aPc = "idle"

\* C32: a call for a script path made after a call for the same path has
\* returned asks the filesystem nothing and returns what the first call
\* returned, whether that was a config file or nothing.
C32_AnsweredFromCache ==
  \A g \in Starters :
    (lkPc[g] = "done" /\ lkAfter[g]) =>
      (~lkStat[g] /\ lkResult[g] = lkFirst[lkPath[g]])

\* C33: the accesses of concurrent Starts to the shared cache never overlap
\* with an assignment, and the process is never stopped on one.
C33_CacheIsConcurrencySafe == ~lkRace /\ ~lkFatal

\* the nearest directory from d up to and including the root that has a
\* config file, deno.json before deno.jsonc
RECURSIVE Nearest(_, _)
Nearest(fs, d) ==
  IF <<d, "deno.json">> \in fs THEN Found(d, "deno.json")
  ELSE IF <<d, "deno.jsonc">> \in fs THEN Found(d, "deno.jsonc")
  ELSE IF d = 0 THEN NotFound
  ELSE Nearest(fs, d - 1)

\* C34: a lookup that walked the directories returns the config file of the
\* nearest directory up to and including the root that has one, and the
\* empty string only when none of them has one.
C34_NearestUpToRoot ==
  \A g \in Starters :
    (lkPc[g] \in {"store", "storing", "done"} /\ lkStat[g]) =>
      lkResult[g] = Nearest(lkFs, lkPath[g])

\* the newline-terminated, non-blank lines of the text the bytes encode
LinesOf(bytes) ==
  LET pieces == Split(Decode(bytes))
  IN NonBlank(SubSeq(pieces, 1, Len(pieces) - 1))

\* C39: whatever the chunking, the lines handed to message processing so far
\* are the newline-terminated non-blank lines of the text received so far,
\* each once and in their order.
C39_LinesWhateverTheChunks ==
  rdHanded = LinesOf(SubSeq(rdStream, 1, rdPos))

\* how many of the lines are of the kind
RECURSIVE CountKind(_, _)
CountKind(lns, kind) ==
  IF lns = <<>> THEN 0
  ELSE (IF Head(lns) = kind THEN 1 ELSE 0) + CountKind(Tail(lns), kind)

\* C31: every unparsable line the controller's read loop has scanned has been
\* answered with a parse-error Response (id null, code -32700) written back
\* to the worker.
C31_ParseErrorAnswered == CountKind(stIn, "parseError") = stBadRead

\* the lines the worker wrote before its Response
BeforeResponse ==
  SubSeq(stOut, 1, (CHOOSE i \in 1..Len(stOut) : stOut[i] = "response") - 1)

====
